---------------------------- MODULE Spec2Model ----------------------------
(***************************************************************************)
(* A model of yashd, the yash shell daemon (src/yashd.c, src/shell.c,      *)
(* src/yashd.h): one client connection with its servant thread, the job    *)
(* threads the servant spawns for CMD messages, the connection's jobs      *)
(* table and job-thread table, and the child processes the jobs fork.      *)
(*                                                                         *)
(* shell.c names the jobs table jobs_table / jobs_table_idx, yashd.c and   *)
(* yashd.h name the same fields job_table / job_table_idx; the model uses  *)
(* the names of shell.c.                                                   *)
(*                                                                         *)
(* Not modelled: failures of fork and pthread_create, the contents of the  *)
(* redirections and of what the children write, the extra delimiters       *)
(* strtok may read behind the one-character CMD_TOKEN_DELIM, and the       *)
(* mutex shell_info_lock (startJob runs without it; the steps that take it *)
(* are atomic steps here).                                                 *)
(***************************************************************************)
EXTENDS Integers, Sequences, FiniteSets, TLC

(***************************************************************************)
(* Program constants.                                                      *)
(***************************************************************************)
MAX_CONCURRENT_JOBS == 20
CHILD_COUNT_SIMPLE == 1
CHILD_COUNT_PIPE == 2
EMPTY_ARRAY == -1
MAX_CONCURRENT_CLIENTS == 50

EMPTY_STR == ""
CMD_PROMPT == "\n# "
CMD_BG == "bg"
CMD_FG == "fg"
CMD_JOBS == "jobs"
JOB_STATUS_RUNNING == "Running"
JOB_STATUS_STOPPED == "Stopped"
JOB_STATUS_DONE == "Done"
MSG_CTL_SIGINT == "c"
MSG_CTL_SIGTSTP == "z"
MSG_CTL_EOF == "d"

\* parseJob's local constants
I_REDIR_OPT == "<"
O_REDIR_OPT == ">"
E_REDIR_OPT == "2>"
BG_OPT == "&"
PIPE_OPT == "|"
SYNTAX_ERR_1 == "syntax error: command should not start with "
SYNTAX_ERR_2 == "syntax error: near token "
SYNTAX_ERR_3 == "syntax error: command should not end with "
SYNTAX_ERR_4 == "syntax error: & should be the last token of the command"
\* waitForChildren's and runJob's error texts
SIG_ERR_1 == "signal errno "
SIG_ERR_2 == ": waitpid error"
PIPE_ERR_1 == "pipe errno "
PIPE_ERR_2 == ": failed to make pipe"
MAX_JOBS_MSG == "-yash: max number of concurrent jobs reached: 20"
JOBS_MSG1 == "No jobs in job table\n"

(***************************************************************************)
(* Bounds of the model.                                                    *)
(***************************************************************************)
\* CMD messages the client sends on the connection (specification Spec)
MaxCmds == 2
\* CTL messages the client sends on the connection (specification Spec)
MaxCtl == 1
\* job threads alive at the same time
MaxJobThreads == 2
\* CMD messages the client sends in specification SpecFill
MaxFillCmds == 22
\* connections the daemon accepts in specifications SpecDaemon and SpecStop
MaxConns == 3
\* connections the daemon accepts in specification SpecAccept
MaxAccepts == 52
\* clients connected at the same time in specification SpecAccept
MaxActive == 2

(***************************************************************************)
(* Values that stand for memory the program never initialised.  A read of  *)
(* such a value yields either zero bytes or some other garbage; the value  *)
(* read is then kept (the memory cell does not change by being read).      *)
(***************************************************************************)
UninitStr == "<uninit>"
GarbageStr == "<garbage>"
UninitJobno == 256
GarbageJobno == 255
UninitPid == -2
\* a garbage pid that names no child of the daemon
NoChildPid == 9999
GarbageErrs == {"", GarbageStr}
GarbageJobnos == {0, GarbageJobno}
GarbagePids == {0, -1, NoChildPid}

(***************************************************************************)
(* Strings.  A raw command line is a sequence of one-character strings; a  *)
(* token is a string.                                                      *)
(***************************************************************************)
RECURSIVE Join(_)
Join(cs) == IF cs = <<>> THEN "" ELSE Head(cs) \o Join(Tail(cs))

RECURSIVE JoinTokens(_)
\* printJob's loop: every token followed by one space
JoinTokens(toks) == IF toks = <<>> THEN "" ELSE Head(toks) \o " " \o JoinTokens(Tail(toks))

IsSpace(c) == c \in {" ", "\t", "\n"}

\* ignoreInput: the empty string and strings of whitespace only
ignoreInput(input_str) ==
    \/ input_str = <<>>
    \/ \A k \in 1..Len(input_str) : IsSpace(input_str[k])

RECURSIVE StrTok(_, _, _)
\* strtok with the delimiter ' ': the maximal runs of other characters.
\* cs: characters left, cur: the token being read, acc: the tokens so far.
StrTok(cs, cur, acc) ==
    IF cs = <<>>
    THEN IF cur = "" THEN acc ELSE Append(acc, cur)
    ELSE IF Head(cs) = " "
         THEN StrTok(Tail(cs), "", IF cur = "" THEN acc ELSE Append(acc, cur))
         ELSE StrTok(Tail(cs), cur \o Head(cs), acc)

\* tokenizeString: drop one final newline, then split on spaces
tokenizeString(cmd_str) ==
    LET len == Len(cmd_str)
        s == IF len > 0 /\ cmd_str[len] = "\n" THEN SubSeq(cmd_str, 1, len - 1) ELSE cmd_str
    IN  StrTok(s, "", <<>>)

(***************************************************************************)
(* job_info_t (src/yashd.h) as a record.  seq is not a field of the        *)
(* program: it remembers which CMD message (by arrival order) the entry    *)
(* was admitted for, so that properties can name "the job of a CMD".       *)
(* raw_flags says that pipe and bg are still memory nothing has written;   *)
(* so are then the six redirection paths (UninitStr).                      *)
(***************************************************************************)
\* The job handleNewJob builds: gpid and jobno start as EMPTY_ARRAY (-1; the
\* uint8_t jobno holds it as 255).
NewJob ==
    [cmd_str |-> <<>>, cmd_tok |-> <<>>, cmd1 |-> <<>>, in1 |-> "", out1 |-> "", err1 |-> "",
     cmd2 |-> <<>>, in2 |-> "", out2 |-> "", err2 |-> "", pipe |-> FALSE, bg |-> FALSE,
     gpid |-> EMPTY_ARRAY, jobno |-> (EMPTY_ARRAY % 256), status |-> "", err_msg |-> "",
     raw_flags |-> FALSE, seq |-> 0]

\* Memory of a jobs-table slot nothing has written yet
UninitJob ==
    [NewJob EXCEPT !.jobno = UninitJobno, !.status = UninitStr, !.err_msg = UninitStr,
                   !.gpid = UninitPid, !.raw_flags = TRUE,
                   !.in1 = UninitStr, !.out1 = UninitStr, !.err1 = UninitStr,
                   !.in2 = UninitStr, !.out2 = UninitStr, !.err2 = UninitStr]

MetaTokens == {I_REDIR_OPT, O_REDIR_OPT, E_REDIR_OPT, PIPE_OPT, BG_OPT}

\* cmd[k] = v for a 0-based k (parseJob fills cmd1/cmd2 at cmd_count)
SetArg(cmd, k, v) == IF k + 1 <= Len(cmd) THEN [cmd EXCEPT ![k + 1] = v] ELSE Append(cmd, v)

RECURSIVE parseLoop(_, _, _)
\* parseJob's for loop over the tokens: j is the jobs-table entry being
\* filled, i the 0-based token index, cmd_count the argument counter.
parseLoop(j, i, cmd_count) ==
    LET len == Len(j.cmd_tok)
        tok == j.cmd_tok[i + 1]
    IN
    IF i >= len THEN j
    ELSE IF tok \in {I_REDIR_OPT, O_REDIR_OPT, E_REDIR_OPT, PIPE_OPT}
    THEN IF i <= 0 \/ cmd_count <= 0
         THEN [j EXCEPT !.err_msg = SYNTAX_ERR_1 \o tok]
         ELSE IF i >= len - 1
         THEN [j EXCEPT !.err_msg = SYNTAX_ERR_3 \o tok]
         ELSE IF j.cmd_tok[i + 2] \in MetaTokens
         THEN [j EXCEPT !.err_msg = SYNTAX_ERR_2 \o tok]
         ELSE IF tok = PIPE_OPT
         THEN parseLoop([j EXCEPT !.pipe = TRUE], i + 1, 0)
         ELSE LET arg == j.cmd_tok[i + 2]
                  j2 == IF tok = I_REDIR_OPT
                        THEN IF ~j.pipe THEN [j EXCEPT !.in1 = arg] ELSE [j EXCEPT !.in2 = arg]
                        ELSE IF tok = O_REDIR_OPT
                        THEN IF ~j.pipe THEN [j EXCEPT !.out1 = arg] ELSE [j EXCEPT !.out2 = arg]
                        ELSE IF ~j.pipe THEN [j EXCEPT !.err1 = arg] ELSE [j EXCEPT !.err2 = arg]
              IN  parseLoop(j2, i + 2, cmd_count)
    ELSE IF tok = BG_OPT
    THEN IF i # len - 1
         THEN [j EXCEPT !.err_msg = SYNTAX_ERR_4]
         ELSE parseLoop([j EXCEPT !.bg = TRUE], i + 1, cmd_count)
    ELSE IF ~j.pipe
         THEN parseLoop([j EXCEPT !.cmd1 = SetArg(j.cmd1, cmd_count, tok)], i + 1, cmd_count + 1)
         ELSE parseLoop([j EXCEPT !.cmd2 = SetArg(j.cmd2, cmd_count, tok)], i + 1, cmd_count + 1)

\* parseJob on the entry j (the caller passes jobs_table[jobs_table_idx-1])
parseJob(cmd_str, j) ==
    parseLoop([j EXCEPT !.cmd_str = cmd_str, !.cmd_tok = tokenizeString(cmd_str)], 0, 0)


(***************************************************************************)
(* State.                                                                  *)
(***************************************************************************)
VARIABLES
    jobs_table,        \* shell_info_t.job_table, with the memory around the array
    jobs_table_idx,    \* shell_info_t.job_table_idx
    job_th_table,      \* shell_info_t.job_th_table
    job_th_table_idx,  \* shell_info_t.job_th_table_idx
    job_th_args,       \* handleCMDMessages' local job_th_args.args, as last written
    thr,               \* the job threads: position, arguments and locals
    procs,             \* the child processes forked so far; the pid is the index
    run_serv,          \* the servant is in its message loop
    cmd_n,             \* CMD messages handled by the servant so far
    ctl_n,             \* CTL messages handled by the servant so far
    last_kill,         \* the last CTL message handled and the kill() call it made
    crashed,           \* undefined behaviour took the process down
    serv_sent,         \* what the servant thread itself has sent to the client
    buf_msg,           \* servantThread's buf_msg: a message received, not yet handled
    servant_th_table,      \* the daemon's table of servant threads
    servant_th_table_idx,  \* its count
    th_args,           \* main's th_args, which every servant gets a pointer to
    main_pc,           \* where main is: "accept", "register", "stop", "join", "stopped"
    conn_n,            \* connections accepted so far
    srv,               \* the servant threads: position and locals
    socks,             \* the client sockets that are open in the daemon
    stop_i,            \* stopAllServantThreads' loop index
    stop_tid,          \* the thread stopAllServantThreads is joining
    chan,              \* a framed exchange: sender's msg_t, the socket, receiver's msg_t
    child,             \* a forked child of runJob between fork() and execvp()/exit()
    shell_info_lock,   \* the mutex: the task that holds it, or NoOwner
    lock_pc,           \* where the servants and job threads are in their use of the mutex
    strtok_st          \* strtok's saved pointer and the threads that tokenize with it

\* the variables of the parts that are modelled on their own
aux == <<chan, child, shell_info_lock, lock_pc, strtok_st>>

\* the variables of the daemon as a whole, and those of one connection
daemon == <<servant_th_table, servant_th_table_idx, th_args, main_pc, conn_n, srv, socks,
            stop_i, stop_tid, aux>>
conn == <<jobs_table, jobs_table_idx, job_th_table, job_th_table_idx, job_th_args, thr,
          procs, run_serv, cmd_n, ctl_n, last_kill, serv_sent, buf_msg>>
vars == <<conn, crashed, daemon>>

\* The array has MAX_CONCURRENT_JOBS entries, 0..MAX_CONCURRENT_JOBS-1.  The
\* code also reads and writes the memory at indexes -1, MAX_CONCURRENT_JOBS
\* and MAX_CONCURRENT_JOBS+1, which the model keeps as further cells.
SlotIds == (-1)..(MAX_CONCURRENT_JOBS + 1)
InArray(s) == s \in 0..(MAX_CONCURRENT_JOBS - 1)
ThSlotIds == 0..(MAX_CONCURRENT_JOBS - 1)
Tids == 1..MaxJobThreads

IdleThread ==
    [pc |-> "idle", args |-> <<>>, seq |-> 0, wait_cmd |-> 0,
     child_num |-> 0, count |-> 0, status |-> "uninit", i |-> 0, ret |-> "", sent |-> <<>>,
     reg |-> 0]

NoThEntry == [tid |-> 0, run |-> FALSE, jobno |-> 0]
NoKill == [arg |-> "", pid |-> 0, sig |-> "none"]

\* servant_th_table has MAX_CONCURRENT_CLIENTS entries; the model keeps the
\* memory behind it as two further cells.  A servant thread is named by the
\* number of its connection, which also stands for its pthread_t and for the
\* descriptor accept() returned.
SrvSlotIds == 0..(MAX_CONCURRENT_CLIENTS + 1)
NoSrvEntry == [tid |-> 0, run |-> FALSE, socket |-> 0]
\* pc: "start", "loop", "search", "close", "remove" (the steps of
\* exitServantThreadSafely), "done" (exited after the teardown), "lost"
\* (exited without it).  idx and ps are the servant's copy
\* of th_args, th_idx is exitServantThreadSafely's local, why records what
\* made the servant leave its loop.
NewServant == [pc |-> "start", idx |-> 0, ps |-> 0, th_idx |-> -1, why |-> ""]
\* a servant thread that has exited: its locals are gone
Exited(pc, why) == [NewServant EXCEPT !.pc = pc, !.why = why]

\* no framed message has been sent: out is the sender's msg_t.msg (msg_size
\* is its length), pre the bytes that were in the socket before the frame,
\* sent says that sendMsg has been called, closed that the peer has closed
\* the connection, wire holds the bytes in the socket; pc is recvMsg's position, buf its one-byte buffer (buf_set: a
\* recv has written it), fails the recv calls that returned -1 so far, in
\* and ret the receiver's msg_t.msg and what recvMsg returned
NoChan == [out |-> <<>>, pre |-> <<>>, sent |-> FALSE, closed |-> FALSE,
           wire |-> <<>>, pc |-> "idle",
           buf |-> 0, buf_set |-> FALSE, fails |-> 0, in |-> <<>>, ret |-> 0]

\* no child has been forked.  side is the child's side of the job, pipe the
\* entry's pipe flag and verbose the daemon's option; redir says for the
\* child's three redirections whether there is none, or whether open() will
\* succeed or fail, and exec_ok whether execvp() will succeed.  out and err
\* are what the child's descriptors 1 and 2 refer to, ps_open whether the
\* client socket's own descriptor is still open, buf_set whether runJob's
\* buf has been written, err_msg the entry's error message in the child's
\* memory.  sock, pipe_w and file_w are the lines the child wrote to the
\* client socket, into the pipe and into a redirection file.  fail records
\* why the child left ("redir", "exec"), code its exit status.
NoRedir == [in |-> "none", out |-> "none", err |-> "none"]
NoChild == [pc |-> "none", side |-> "left", pipe |-> FALSE, verbose |-> FALSE,
            redir |-> NoRedir, exec_ok |-> TRUE, out |-> "daemon", err |-> "daemon",
            ps_open |-> TRUE, buf_set |-> FALSE, err_msg |-> EMPTY_STR,
            sock |-> <<>>, pipe_w |-> <<>>, file_w |-> <<>>,
            fail |-> "no", executed |-> FALSE, code |-> 0]

\* the tasks that use shell_info_lock: the servant thread of a connection
\* and one job thread of it.  The mutex is one global of the daemon
\* (src/yashd.h), not a member of a connection's shell_info.
MaxLockConns == 2
LockConns == 1..MaxLockConns
LockTasks == LockConns \X {"servant", "job"}
NoOwner == <<0, "none">>
NoLockTasks == [a \in LockTasks |-> "unborn"]

\* the threads that tokenize at the same time.  A pointer into a buffer is
\* <<thread whose buffer it is, position>>, the null pointer is NullPtr.
\* olds is the pointer strtok keeps between calls (one for the process), buf
\* the threads' buffers (cmd_str), line what they held before strtok wrote
\* into them, tok the pointers stored in cmd_tok.
Tokenizers == 1..2
NullPtr == <<0, 0>>
NulChar == "NUL"
NoStrtok == [olds |-> NullPtr,
             pc |-> [k \in Tokenizers |-> "idle"],
             buf |-> [k \in Tokenizers |-> <<>>],
             line |-> [k \in Tokenizers |-> <<>>],
             tok |-> [k \in Tokenizers |-> <<>>]]

\* the daemon before the first connection: the globals are zero
DaemonInit ==
    /\ servant_th_table = [k \in SrvSlotIds |-> NoSrvEntry]
    /\ servant_th_table_idx = 0
    /\ th_args = [idx |-> 0, ps |-> 0]
    /\ main_pc = "accept"
    /\ conn_n = 0
    /\ srv = <<>>
    /\ socks = {}
    /\ stop_i = -1
    /\ stop_tid = 0
    /\ chan = NoChan
    /\ child = NoChild
    /\ shell_info_lock = NoOwner
    /\ lock_pc = NoLockTasks
    /\ strtok_st = NoStrtok

\* servantThread's set-up of sh_info: only the two indexes are initialised;
\* the servant has sent the first prompt
Init ==
    /\ jobs_table = [s \in SlotIds |-> UninitJob]
    /\ jobs_table_idx = 0
    /\ job_th_table = [k \in ThSlotIds |-> NoThEntry]
    /\ job_th_table_idx = 0
    /\ job_th_args = <<>>
    /\ thr = [t \in Tids |-> IdleThread]
    /\ procs = <<>>
    /\ run_serv = TRUE
    /\ cmd_n = 0
    /\ ctl_n = 0
    /\ last_kill = NoKill
    /\ crashed = FALSE
    /\ serv_sent = <<CMD_PROMPT>>
    /\ buf_msg = <<>>
    /\ DaemonInit

(***************************************************************************)
(* Reads of memory that may never have been written.  g is the garbage the *)
(* cell turns out to hold; Fix* is the table with that cell settled.       *)
(***************************************************************************)
ErrOf(tbl, s, g) == IF tbl[s].err_msg = UninitStr THEN g ELSE tbl[s].err_msg
FixErr(tbl, s, g) == IF tbl[s].err_msg = UninitStr THEN [tbl EXCEPT ![s].err_msg = g] ELSE tbl
JobnoOf(tbl, s, g) == IF tbl[s].jobno = UninitJobno THEN g ELSE tbl[s].jobno
FixJobno(tbl, s, g) == IF tbl[s].jobno = UninitJobno THEN [tbl EXCEPT ![s].jobno = g] ELSE tbl
GpidOf(tbl, s, g) == IF tbl[s].gpid = UninitPid THEN g ELSE tbl[s].gpid
FixGpid(tbl, s, g) == IF tbl[s].gpid = UninitPid THEN [tbl EXCEPT ![s].gpid = g] ELSE tbl
FixFlags(tbl, s, p, b) ==
    IF tbl[s].raw_flags THEN [tbl EXCEPT ![s].pipe = p, ![s].bg = b, ![s].raw_flags = FALSE]
    ELSE tbl

IsLive(j) == j.status \in {JOB_STATUS_RUNNING, JOB_STATUS_STOPPED}

(***************************************************************************)
(* removeJob                                                               *)
(***************************************************************************)
RECURSIVE removeLoop(_, _, _, _)
\* removeJob's loop: i counts down from the count at entry; each pass looks
\* at the entry AT THE COUNT (jobs_table[jobs_table_idx]), not at i.
\* Returns <<table, count>>.
removeLoop(tbl, idx, i, g) ==
    IF i < 0 THEN <<tbl, idx>>
    ELSE IF idx \notin SlotIds THEN <<tbl, idx>>
    ELSE IF JobnoOf(tbl, idx, g) < 1
         THEN removeLoop(FixJobno(tbl, idx, g), idx - 1, i - 1, g)
         ELSE <<FixJobno(tbl, idx, g), idx>>

removeJob(job_idx, tbl, idx, g) ==
    LET cleared == [tbl EXCEPT ![job_idx].jobno = 0, ![job_idx].gpid = 0, ![job_idx].status = ""]
    IN  removeLoop(cleared, idx, idx - 1, g)

\* printJob: the line for entry job_idx
printJob(job_idx, tbl, idx) ==
    "[" \o ToString(tbl[job_idx].jobno) \o "]"
        \o (IF idx - 1 = job_idx THEN "+" ELSE "-")
        \o " " \o tbl[job_idx].status \o "\t" \o JoinTokens(tbl[job_idx].cmd_tok)

(***************************************************************************)
(* Child processes.  state: "running", "stopped_new" (stopped and not yet  *)
(* reported by a wait), "stopped" (stopped and reported), "exited" and     *)
(* "signaled" (terminated, not yet waited for), "reaped".  pgid is the     *)
(* group the child put itself in (setpgid).  by, side, slot_err and        *)
(* own_err are not program state: they record which CMD's thread forked    *)
(* the child, as which side of the job, whether the entry the fork ran on  *)
(* held an error message, and whether the forking thread's own command     *)
(* line had failed to parse.                                               *)
(***************************************************************************)
Pids == 1..Len(procs)

\* which children a pid argument of waitpid/kill names
Matches(target, p) ==
    IF target > 0 THEN p = target
    ELSE IF target = -1 THEN TRUE
    ELSE IF target = 0 THEN FALSE        \* the daemon's own group holds no child
    ELSE procs[p].pgid = -target

\* the children waitpid(target, ...) can still wait for
Waitable(target) == {p \in Pids : Matches(target, p) /\ procs[p].state # "reaped"}

\* the children whose state change waitpid(target, ..., WUNTRACED) reports
Reportable(target) ==
    {p \in Waitable(target) : procs[p].state \in {"exited", "signaled", "stopped_new"}}

\* the wait status for child p, and the processes after the report
StatusOf(p) == IF procs[p].state = "stopped_new" THEN "stopped" ELSE procs[p].state
Reported(p) ==
    [procs EXCEPT ![p].state = IF @ = "stopped_new" THEN "stopped" ELSE "reaped"]

\* kill(target, sig) with the default dispositions the children restore
Kill(target, sig) ==
    [p \in Pids |->
        IF Matches(target, p) /\ procs[p].state = "running"
        THEN [procs[p] EXCEPT !.state = IF sig = "SIGINT" THEN "signaled" ELSE "stopped_new"]
        ELSE procs[p]]

\* a child terminates by itself
ChildExit(p) ==
    /\ ~crashed
    /\ procs[p].state = "running"
    /\ procs' = [procs EXCEPT ![p].state = "exited"]
    /\ UNCHANGED <<daemon, serv_sent, buf_msg,
                   job_th_args, jobs_table, jobs_table_idx, job_th_table, job_th_table_idx, thr,
                   run_serv, cmd_n, ctl_n, last_kill, crashed>>

\* the daemon's SIGCHLD handler: wait() takes one terminated child
sigChld ==
    /\ ~crashed
    /\ \E p \in Pids :
          /\ procs[p].state \in {"exited", "signaled"}
          /\ procs' = [procs EXCEPT ![p].state = "reaped"]
    /\ UNCHANGED <<daemon, serv_sent, buf_msg,
                   job_th_args, jobs_table, jobs_table_idx, job_th_table, job_th_table_idx, thr,
                   run_serv, cmd_n, ctl_n, last_kill, crashed>>

(***************************************************************************)
(* The servant thread.                                                     *)
(***************************************************************************)
FreeTids == {t \in Tids : thr[t].pc = "idle"}

\* handleCMDMessages: copy the arguments into the local job_th_args, record
\* the new job thread at job_th_table_idx and start it on a pointer to
\* job_th_args.  The thread gets the lowest free thread id.
handleCMDMessages(arguments) ==
    /\ ~crashed
    /\ run_serv
    /\ FreeTids # {}
    /\ job_th_table_idx \in ThSlotIds
    /\ LET t == CHOOSE x \in FreeTids : \A y \in FreeTids : x <= y
       IN  /\ job_th_table' = [job_th_table EXCEPT ![job_th_table_idx] =
                                  [tid |-> t, run |-> TRUE, jobno |-> jobs_table_idx + 1]]
           /\ job_th_table_idx' = job_th_table_idx + 1
           /\ thr' = [thr EXCEPT ![t] = [IdleThread EXCEPT !.pc = "copy", !.seq = cmd_n + 1]]
    /\ job_th_args' = arguments
    /\ cmd_n' = cmd_n + 1
    /\ UNCHANGED <<daemon, serv_sent, jobs_table, jobs_table_idx, procs, run_serv, ctl_n, last_kill, crashed>>

RECURSIVE fgScan(_)
\* handleCTLMessages' search: the gpid of the newest entry below the count
\* that is not "Done" and not a background job; 0 when there is none.
fgScan(i) ==
    IF i < 0 THEN 0
    ELSE IF jobs_table[i].status # JOB_STATUS_DONE /\ ~jobs_table[i].bg
         THEN jobs_table[i].gpid
         ELSE fgScan(i - 1)

handleCTLMessages(arg) ==
    /\ ~crashed
    /\ run_serv
    /\ LET pid_job == fgScan(jobs_table_idx - 1)
       IN  IF pid_job = 0
           THEN /\ run_serv' = (arg # MSG_CTL_EOF)
                /\ last_kill' = [NoKill EXCEPT !.arg = arg]
                /\ UNCHANGED procs
           ELSE IF arg = MSG_CTL_SIGINT
           THEN /\ procs' = Kill(pid_job, "SIGINT")
                /\ last_kill' = [arg |-> arg, pid |-> pid_job, sig |-> "SIGINT"]
                /\ UNCHANGED run_serv
           ELSE IF arg = MSG_CTL_SIGTSTP
           THEN /\ procs' = Kill(pid_job, "SIGTSTP")
                /\ last_kill' = [arg |-> arg, pid |-> pid_job, sig |-> "SIGTSTP"]
                /\ UNCHANGED run_serv
           ELSE /\ run_serv' = FALSE
                /\ last_kill' = [NoKill EXCEPT !.arg = arg]
                /\ UNCHANGED procs
    /\ ctl_n' = ctl_n + 1
    /\ UNCHANGED <<daemon, job_th_args, jobs_table, jobs_table_idx, job_th_table, job_th_table_idx, thr,
                   cmd_n, crashed>>

\* servantThread's branch for a CTL message with a prompt after every
\* message, "d" included
servantCTLPromptAlways(arg) ==
    /\ handleCTLMessages(arg)
    /\ serv_sent' = Append(serv_sent, CMD_PROMPT)

\* servantThread's branch for a CTL message: handleCTLMessages, then the
\* prompt.  For "d" handleCTLMessages ends the thread in
\* exitServantThreadSafely and does not return, so no prompt follows.
servantCTL(arg) ==
    /\ handleCTLMessages(arg)
    /\ serv_sent' = IF arg = MSG_CTL_EOF THEN serv_sent ELSE Append(serv_sent, CMD_PROMPT)

(***************************************************************************)
(* The job threads.  Each thread runs jobThread: startJob on its           *)
(* arguments, the prompt, exitJobThreadSafely.  startJob takes no lock, so *)
(* the steps of different job threads interleave; a step is the code       *)
(* between two accesses to the shared tables that another thread can       *)
(* separate.                                                               *)
(***************************************************************************)
Send(th, line) == [th EXCEPT !.sent = Append(@, line)]

\* entry of maintainJobsTable; ret is where the caller continues
EnterMaintain(th, ret) == [th EXCEPT !.pc = "maintain", !.i = 0, !.status = "uninit", !.ret = ret]

\* jobThread's entry: copy the arguments from the struct the servant passed
\* by pointer.  The struct is a local of handleCMDMessages, which does not
\* wait for the copy: the thread reads what the last call of
\* handleCMDMessages wrote there, or, when other calls of the servant have
\* reused the stack, garbage (a garbage shell_info pointer ends the process).
JobCopy(t) ==
    /\ thr[t].pc = "copy"
    /\ ~crashed
    /\ \E intact \in BOOLEAN :
          IF intact
          THEN /\ thr' = [thr EXCEPT ![t].pc = "start", ![t].args = job_th_args]
               /\ UNCHANGED crashed
          ELSE /\ crashed' = TRUE
               /\ UNCHANGED thr
    /\ UNCHANGED <<daemon, serv_sent, buf_msg,
                   jobs_table, jobs_table_idx, job_th_table, job_th_table_idx, job_th_args,
                   procs, run_serv, cmd_n, ctl_n, last_kill>>

\* startJob's dispatch and, for a new job, handleNewJob's admission
JobStart(t) ==
    /\ ~crashed
    /\ thr[t].pc = "start"
    /\ LET a == thr[t].args
           str == Join(a)
       IN  IF ignoreInput(a) \/ str \in {CMD_BG, CMD_FG}
           THEN /\ thr' = [thr EXCEPT ![t] = EnterMaintain(@, "prompt")]
                /\ UNCHANGED <<job_th_args, jobs_table, jobs_table_idx>>
           ELSE IF str = CMD_JOBS
           THEN /\ thr' = [thr EXCEPT ![t] = EnterMaintain(@, "jobs_list")]
                /\ UNCHANGED <<job_th_args, jobs_table, jobs_table_idx>>
           ELSE IF jobs_table_idx - 1 < MAX_CONCURRENT_JOBS
           THEN /\ jobs_table' = [jobs_table EXCEPT ![jobs_table_idx] =
                                     [NewJob EXCEPT !.jobno = (jobs_table_idx + 1) % 256,
                                                    !.status = JOB_STATUS_RUNNING,
                                                    !.seq = thr[t].seq]]
                /\ jobs_table_idx' = jobs_table_idx + 1
                /\ thr' = [thr EXCEPT ![t].pc = "parse"]
           ELSE /\ thr' = [thr EXCEPT ![t] = EnterMaintain(Send(@, MAX_JOBS_MSG), "prompt")]
                /\ UNCHANGED <<job_th_args, jobs_table, jobs_table_idx>>
    /\ UNCHANGED <<daemon, serv_sent, buf_msg,
                   job_th_args, job_th_table, job_th_table_idx, procs, run_serv, cmd_n, ctl_n,
                   last_kill, crashed>>

\* handleNewJob's call of parseJob, on the entry below the count
JobParse(t) ==
    /\ ~crashed
    /\ thr[t].pc = "parse"
    /\ \E p \in BOOLEAN, b \in BOOLEAN :
          LET s == jobs_table_idx - 1
              tbl == FixFlags(jobs_table, s, p, b)
          IN  jobs_table' = [tbl EXCEPT ![s] = parseJob(thr[t].args, @)]
    /\ thr' = [thr EXCEPT ![t].pc = "parsed"]
    /\ UNCHANGED <<daemon, serv_sent, buf_msg,
                   job_th_args, jobs_table_idx, job_th_table, job_th_table_idx, procs, run_serv,
                   cmd_n, ctl_n, last_kill, crashed>>

\* handleNewJob after parseJob: the error check on the entry below the count,
\* and the error line, which is built from the entry AT the count
JobParsed(t) ==
    /\ ~crashed
    /\ thr[t].pc = "parsed"
    /\ \E g1 \in GarbageErrs, g2 \in GarbageErrs :
          LET s == jobs_table_idx - 1
              e == ErrOf(jobs_table, s, g1)
              tbl1 == FixErr(jobs_table, s, g1)
          IN  IF e # EMPTY_STR
              THEN /\ jobs_table' = FixErr(tbl1, s + 1, g2)
                   /\ thr' = [thr EXCEPT ![t] =
                                 EnterMaintain(Send(@, "-yash: " \o ErrOf(tbl1, s + 1, g2) \o "\n"),
                                               "prompt")]
              ELSE /\ jobs_table' = tbl1
                   /\ thr' = [thr EXCEPT ![t].pc = "run"]
    /\ UNCHANGED <<daemon, serv_sent, buf_msg,
                   job_th_args, jobs_table_idx, job_th_table, job_th_table_idx, procs, run_serv,
                   cmd_n, ctl_n, last_kill, crashed>>

\* whether the command line of thread t fails to parse
OwnParseError(t) == parseJob(thr[t].args, NewJob).err_msg # EMPTY_STR

NewProc(t, s, side, pgid) ==
    [state |-> "running", pgid |-> pgid, by |-> thr[t].seq, side |-> side,
     slot_err |-> (jobs_table[s].err_msg \notin {EMPTY_STR, UninitStr}),
     own_err |-> OwnParseError(t)]

\* runJob up to the call of waitForChildren, taken as one step: the pipe
\* (which may fail, here with EMFILE = 24), the forks, the gpid, and for a
\* foreground job the entry of waitForChildren (cmd, child_num, count)
JobRun(t) ==
    /\ ~crashed
    /\ thr[t].pc = "run"
    /\ \E p \in BOOLEAN, b \in BOOLEAN, pipe_ok \in BOOLEAN :
          LET s == jobs_table_idx - 1
              tbl == FixFlags(jobs_table, s, p, b)
              c1_pid == Len(procs) + 1
          IN  IF tbl[s].pipe /\ ~pipe_ok
              THEN /\ jobs_table' = [tbl EXCEPT ![s].err_msg = PIPE_ERR_1 \o "24" \o PIPE_ERR_2]
                   /\ thr' = [thr EXCEPT ![t].pc = "postrun"]
                   /\ UNCHANGED procs
              ELSE /\ (~tbl[s].pipe => pipe_ok)
                   /\ procs' = IF tbl[s].pipe
                               THEN procs \o <<NewProc(t, s, "left", c1_pid),
                                               NewProc(t, s, "right", c1_pid)>>
                               ELSE Append(procs, NewProc(t, s, "left", c1_pid))
                   /\ jobs_table' = [tbl EXCEPT ![s].gpid = c1_pid]
                   /\ thr' = IF tbl[s].bg
                              THEN [thr EXCEPT ![t].pc = "postrun"]
                              ELSE [thr EXCEPT ![t].wait_cmd = s,
                                               ![t].child_num = IF tbl[s].pipe THEN CHILD_COUNT_PIPE
                                                                ELSE CHILD_COUNT_SIMPLE,
                                               ![t].count = 0,
                                               ![t].pc = "wait"]
    /\ UNCHANGED <<daemon, serv_sent, buf_msg,
                   job_th_args, jobs_table_idx, job_th_table, job_th_table_idx, run_serv,
                   cmd_n, ctl_n, last_kill, crashed>>

\* one return of waitForChildren's waitpid(jobs_table[jobs_table_idx-1].gpid,
\* &status, WUNTRACED).  The call blocks while the children it names have
\* nothing to report; it fails with ECHILD (10) when it names no child.
JobWait(t) ==
    /\ ~crashed
    /\ thr[t].pc = "wait"
    /\ \E g \in GarbagePids :
          LET s == jobs_table_idx - 1
              target == GpidOf(jobs_table, s, g)
              tbl == FixGpid(jobs_table, s, g)
          IN  IF Waitable(target) = {}
              THEN /\ jobs_table' = [tbl EXCEPT ![thr[t].wait_cmd].err_msg =
                                        SIG_ERR_1 \o "10" \o SIG_ERR_2]
                   /\ thr' = [thr EXCEPT ![t].pc = "waited"]
                   /\ UNCHANGED procs
              ELSE \E p \in Reportable(target) :
                      /\ procs' = Reported(p)
                      /\ jobs_table' = tbl
                      /\ thr' = IF StatusOf(p) \in {"exited", "signaled"}
                                THEN [thr EXCEPT ![t].count = (@ + 1) % 256,
                                                 ![t].pc = IF (thr[t].count + 1) % 256 < thr[t].child_num
                                                           THEN "wait" ELSE "waited"]
                                ELSE thr
    /\ UNCHANGED <<daemon, serv_sent, buf_msg,
                   job_th_args, jobs_table_idx, job_th_table, job_th_table_idx, run_serv,
                   cmd_n, ctl_n, last_kill, crashed>>

\* runJob after waitForChildren: return on an error message in the entry
\* below the count, removeJob on that entry otherwise
JobWaited(t) ==
    /\ ~crashed
    /\ thr[t].pc = "waited"
    /\ \E g1 \in GarbageErrs, g2 \in GarbageJobnos :
          LET s == jobs_table_idx - 1
              e == ErrOf(jobs_table, s, g1)
              tbl == FixErr(jobs_table, s, g1)
              r == removeJob(s, tbl, jobs_table_idx, g2)
          IN  IF e # EMPTY_STR
              THEN /\ jobs_table' = tbl
                   /\ UNCHANGED jobs_table_idx
              ELSE /\ jobs_table' = r[1]
                   /\ jobs_table_idx' = r[2]
    /\ thr' = [thr EXCEPT ![t].pc = "postrun", ![t].wait_cmd = 0, ![t].child_num = 0,
                          ![t].count = 0]
    /\ UNCHANGED <<daemon, serv_sent, buf_msg,
                   job_th_args, job_th_table, job_th_table_idx, procs, run_serv,
                   cmd_n, ctl_n, last_kill, crashed>>

\* handleNewJob after runJob: the same check and error line as after parseJob
JobPostRun(t) ==
    /\ ~crashed
    /\ thr[t].pc = "postrun"
    /\ \E g1 \in GarbageErrs, g2 \in GarbageErrs :
          LET s == jobs_table_idx - 1
              e == ErrOf(jobs_table, s, g1)
              tbl1 == FixErr(jobs_table, s, g1)
          IN  IF jobs_table_idx # EMPTY_ARRAY /\ e # EMPTY_STR
              THEN /\ jobs_table' = FixErr(tbl1, s + 1, g2)
                   /\ thr' = [thr EXCEPT ![t] =
                                 EnterMaintain(Send(@, "-yash: " \o ErrOf(tbl1, s + 1, g2) \o "\n"),
                                               "prompt")]
              ELSE /\ jobs_table' = tbl1
                   /\ thr' = [thr EXCEPT ![t] = EnterMaintain(@, "prompt")]
    /\ UNCHANGED <<daemon, serv_sent, buf_msg,
                   job_th_args, jobs_table_idx, job_th_table, job_th_table_idx, procs, run_serv,
                   cmd_n, ctl_n, last_kill, crashed>>

\* what an int that was never written decodes to as a wait status
GarbageStatus == {"exited", "stopped", "continued", "other"}

\* one pass of maintainJobsTable's loop.  waitpid with WNOHANG writes status
\* only when it has a state change to report; otherwise the code decodes
\* what the variable held before (garbage on the first pass of a call).
JobMaintain(t) ==
    /\ ~crashed
    /\ thr[t].pc = "maintain"
    /\ LET i == thr[t].i
       IN  IF i >= jobs_table_idx
           THEN /\ thr' = [thr EXCEPT ![t].pc = thr[t].ret, ![t].i = 0, ![t].status = "uninit",
                                      ![t].ret = ""]
                /\ UNCHANGED <<job_th_args, jobs_table, jobs_table_idx, procs>>
           ELSE IF ~IsLive(jobs_table[i])
           THEN /\ thr' = [thr EXCEPT ![t].i = i + 1]
                /\ UNCHANGED <<job_th_args, jobs_table, jobs_table_idx, procs>>
           ELSE LET rep == Reportable(jobs_table[i].gpid)
                IN  \E p \in (IF rep = {} THEN {0} ELSE rep),
                       gs \in GarbageStatus, gj \in GarbageJobnos :
                       LET st == IF p # 0 THEN StatusOf(p)
                                 ELSE IF thr[t].status = "uninit" THEN gs ELSE thr[t].status
                           done == [jobs_table EXCEPT ![i].status = JOB_STATUS_DONE]
                           r == removeJob(i, done, jobs_table_idx, gj)
                       IN  /\ procs' = IF p # 0 THEN Reported(p) ELSE procs
                           /\ IF st \in {"exited", "signaled"}
                              THEN /\ jobs_table' = r[1]
                                   /\ jobs_table_idx' = r[2]
                                   /\ thr' = [thr EXCEPT ![t] =
                                                 [Send(@, printJob(i, done, jobs_table_idx))
                                                     EXCEPT !.i = i + 1, !.status = st]]
                              ELSE /\ jobs_table' =
                                         IF st = "stopped"
                                         THEN [jobs_table EXCEPT ![i].status = JOB_STATUS_STOPPED]
                                         ELSE IF st = "continued"
                                         THEN [jobs_table EXCEPT ![i].status = JOB_STATUS_RUNNING]
                                         ELSE jobs_table
                                   /\ UNCHANGED jobs_table_idx
                                   /\ thr' = [thr EXCEPT ![t].i = i + 1, ![t].status = st]
    /\ UNCHANGED <<daemon, serv_sent, buf_msg,
                   job_th_args, job_th_table, job_th_table_idx, run_serv, cmd_n, ctl_n, last_kill, crashed>>

RECURSIVE listJobs(_, _)
\* jobsExec's loop: the lines of the Running and Stopped entries from i on
listJobs(i, sent) ==
    IF i >= jobs_table_idx THEN sent
    ELSE IF IsLive(jobs_table[i])
         THEN listJobs(i + 1, Append(sent, printJob(i, jobs_table, jobs_table_idx)))
         ELSE listJobs(i + 1, sent)

\* jobsExec after its maintainJobsTable; startJob then maintains once more
JobsList(t) ==
    /\ ~crashed
    /\ thr[t].pc = "jobs_list"
    /\ thr' = [thr EXCEPT ![t] =
                  EnterMaintain([@ EXCEPT !.sent = IF jobs_table_idx <= 0
                                                  THEN Append(@, JOBS_MSG1)
                                                  ELSE listJobs(0, @)],
                                "prompt")]
    /\ UNCHANGED <<daemon, serv_sent, buf_msg,
                   job_th_args, jobs_table, jobs_table_idx, job_th_table, job_th_table_idx, procs,
                   run_serv, cmd_n, ctl_n, last_kill, crashed>>

\* jobThread after startJob: the prompt
JobPrompt(t) ==
    /\ ~crashed
    /\ thr[t].pc = "prompt"
    /\ thr' = [thr EXCEPT ![t] = [Send(@, CMD_PROMPT) EXCEPT !.pc = "exit"]]
    /\ UNCHANGED <<daemon, serv_sent, buf_msg,
                   job_th_args, jobs_table, jobs_table_idx, job_th_table, job_th_table_idx, procs,
                   run_serv, cmd_n, ctl_n, last_kill, crashed>>

\* searchJobThByTid: the first index below the count holding tid, else -1
searchJobThByTid(tid) ==
    LET hits == {k \in ThSlotIds : k < job_th_table_idx /\ job_th_table[k].tid = tid}
    IN  IF hits = {} THEN -1 ELSE CHOOSE k \in hits : \A m \in hits : k <= m

RECURSIVE shrinkJobTh(_, _, _)
\* removeJobThFromTableByIdx's loop: lower the count over entries not running
shrinkJobTh(tbl, idx, i) ==
    IF i < 0 THEN idx
    ELSE IF ~tbl[i].run THEN shrinkJobTh(tbl, idx - 1, i - 1)
    ELSE idx

\* exitJobThreadSafely: clear the thread's entry, lower the count, exit
JobExit(t) ==
    /\ ~crashed
    /\ thr[t].pc = "exit"
    /\ LET th_idx == searchJobThByTid(t)
           tbl == [job_th_table EXCEPT ![th_idx] = NoThEntry]
       IN  IF th_idx < 0 \/ th_idx >= job_th_table_idx
           THEN UNCHANGED <<job_th_args, job_th_table, job_th_table_idx>>
           ELSE /\ job_th_table' = tbl
                /\ job_th_table_idx' = shrinkJobTh(tbl, job_th_table_idx, job_th_table_idx - 1)
    /\ thr' = [thr EXCEPT ![t] = IdleThread]
    /\ UNCHANGED <<daemon, serv_sent, buf_msg,
                   job_th_args, jobs_table, jobs_table_idx, procs, run_serv, cmd_n, ctl_n,
                   last_kill, crashed>>

(***************************************************************************)
(* Writes outside the array.  The admission test lets a job in at count    *)
(* MAX_CONCURRENT_JOBS, and the steps that work on the entry below the     *)
(* count run on entry -1 when another thread has emptied the table.  Such  *)
(* a write either lands in the memory next to the array (the cells the     *)
(* model keeps) or takes the process down.  So does any step of a job      *)
(* thread after the servant thread has exited.                             *)
(***************************************************************************)
IsNewJob(t) ==
    /\ ~ignoreInput(thr[t].args)
    /\ Join(thr[t].args) \notin {CMD_BG, CMD_FG, CMD_JOBS}

OutOfBoundsWrite(t) ==
    \/ /\ thr[t].pc = "start"
       /\ IsNewJob(t)
       /\ jobs_table_idx - 1 < MAX_CONCURRENT_JOBS
       /\ ~InArray(jobs_table_idx)
    \/ /\ thr[t].pc \in {"parse", "run", "waited"}
       /\ ~InArray(jobs_table_idx - 1)
    \/ /\ thr[t].pc = "wait"
       /\ ~InArray(thr[t].wait_cmd)

\* sh_info is a local of servantThread: once the servant has exited (CTL d),
\* a job thread that is still running works on a stack that is gone
DanglingShellInfo(t) == ~run_serv /\ thr[t].pc # "idle"

MemoryFault(t) ==
    /\ ~crashed
    /\ OutOfBoundsWrite(t) \/ DanglingShellInfo(t)
    /\ crashed' = TRUE
    /\ UNCHANGED <<daemon, serv_sent, buf_msg,
                   job_th_args, jobs_table, jobs_table_idx, job_th_table, job_th_table_idx, thr, procs,
                   run_serv, cmd_n, ctl_n, last_kill>>

(***************************************************************************)
(* The daemon: main's accept loop, the servant threads' registration in    *)
(* servant_th_table, their way out of the message loop and their teardown  *)
(* in exitServantThreadSafely.  What a servant does with a message is the  *)
(* subject of the actions above; here a servant in its loop only leaves    *)
(* it.  Every step is the code between two points where another thread    *)
(* can act: the table functions take servant_th_table_lock, the reads of   *)
(* main (th_args.idx) and of the servant (the run flag) do not.            *)
(***************************************************************************)
Servants == 1..Len(srv)

\* main: accept() and the filling of th_args, with the count read unlocked
mainAccept(max) ==
    /\ ~crashed
    /\ main_pc = "accept"
    /\ conn_n < max
    /\ conn_n' = conn_n + 1
    /\ socks' = socks \cup {conn_n + 1}
    /\ th_args' = [idx |-> servant_th_table_idx, ps |-> conn_n + 1]
    /\ main_pc' = "register"
    /\ UNCHANGED <<conn, aux, crashed, servant_th_table, servant_th_table_idx, srv, stop_i, stop_tid>>

\* main: under the lock, the entry at the count (run, socket, tid), the new
\* thread, the count.  Nothing compares the count with
\* MAX_CONCURRENT_CLIENTS: at the count 50 the entry is memory behind the
\* array, and the write lands there or takes the process down.
mainRegister ==
    /\ ~crashed
    /\ main_pc = "register"
    /\ servant_th_table_idx <= MAX_CONCURRENT_CLIENTS
    /\ \E lands \in BOOLEAN :
          /\ servant_th_table_idx < MAX_CONCURRENT_CLIENTS => lands
          /\ IF lands
             THEN /\ servant_th_table' =
                        [servant_th_table EXCEPT ![servant_th_table_idx] =
                            [tid |-> conn_n, run |-> TRUE, socket |-> th_args.ps]]
                  /\ servant_th_table_idx' = servant_th_table_idx + 1
                  /\ srv' = Append(srv, NewServant)
                  /\ main_pc' = "accept"
                  /\ UNCHANGED crashed
             ELSE /\ crashed' = TRUE
                  /\ UNCHANGED <<servant_th_table, servant_th_table_idx, srv, main_pc>>
    /\ UNCHANGED <<conn, aux, th_args, conn_n, socks, stop_i, stop_tid>>

\* servantThread's entry: the copy of *thread_args, that is of main's
\* th_args as it is when the servant gets to run
servantStart(s) ==
    /\ ~crashed
    /\ srv[s].pc = "start"
    /\ srv' = [srv EXCEPT ![s].pc = "loop", ![s].idx = th_args.idx, ![s].ps = th_args.ps]
    /\ UNCHANGED <<conn, aux, crashed, servant_th_table, servant_th_table_idx, th_args, main_pc,
                   conn_n, socks, stop_i, stop_tid>>

\* the events that end the message loop: CTL d, recv() returning 0 or poll()
\* reporting a hang-up, recv() failing
EndEvents == {"ctl_d", "disconnect", "recv_error"}

servantEnd(s, why) ==
    /\ ~crashed
    /\ srv[s].pc = "loop"
    /\ srv' = [srv EXCEPT ![s].pc = "search", ![s].why = why]
    /\ UNCHANGED <<conn, aux, crashed, servant_th_table, servant_th_table_idx, th_args, main_pc,
                   conn_n, socks, stop_i, stop_tid>>

\* the end of a loop iteration: the run flag of the entry th_args_l.idx
servantCheckRun(s) ==
    /\ ~crashed
    /\ srv[s].pc = "loop"
    /\ ~servant_th_table[srv[s].idx].run
    /\ srv' = [srv EXCEPT ![s].pc = "search", ![s].why = "run_flag"]
    /\ UNCHANGED <<conn, aux, crashed, servant_th_table, servant_th_table_idx, th_args, main_pc,
                   conn_n, socks, stop_i, stop_tid>>

\* searchServantThByTid: the first index below the count holding tid, else -1
searchServantThByTid(tid) ==
    LET hits == {k \in SrvSlotIds : k < servant_th_table_idx /\ servant_th_table[k].tid = tid}
    IN  IF hits = {} THEN -1 ELSE CHOOSE k \in hits : \A m \in hits : k <= m

\* exitServantThreadSafely: the search for the own entry; the thread exits
\* at once when it is not found
exitSearch(s) ==
    /\ ~crashed
    /\ srv[s].pc = "search"
    /\ LET th_idx == searchServantThByTid(s)
       IN  srv' = IF th_idx < 0 \/ th_idx >= servant_th_table_idx
                  THEN [srv EXCEPT ![s] = Exited("lost", srv[s].why)]
                  ELSE [srv EXCEPT ![s].th_idx = th_idx, ![s].pc = "close"]
    /\ UNCHANGED <<conn, aux, crashed, servant_th_table, servant_th_table_idx, th_args, main_pc,
                   conn_n, socks, stop_i, stop_tid>>

\* exitServantThreadSafely: close() on the socket of the entry found
exitClose(s) ==
    /\ ~crashed
    /\ srv[s].pc = "close"
    /\ socks' = socks \ {servant_th_table[srv[s].th_idx].socket}
    /\ srv' = [srv EXCEPT ![s].pc = "remove"]
    /\ UNCHANGED <<conn, aux, crashed, servant_th_table, servant_th_table_idx, th_args, main_pc,
                   conn_n, stop_i, stop_tid>>

RECURSIVE shrinkServantTh(_, _, _)
\* removeServantThFromTableByIdx's loop: lower the count over entries not running
shrinkServantTh(tbl, idx, i) ==
    IF i < 0 THEN idx
    ELSE IF ~tbl[i].run THEN shrinkServantTh(tbl, idx - 1, i - 1)
    ELSE idx

\* a teardown that leaves the entry as it is
exitRemoveKeepsEntry(s) ==
    /\ ~crashed
    /\ srv[s].pc = "remove"
    /\ srv' = [srv EXCEPT ![s] = Exited("done", srv[s].why)]
    /\ UNCHANGED <<conn, aux, crashed, servant_th_table, servant_th_table_idx, th_args, main_pc,
                   conn_n, socks, stop_i, stop_tid>>

\* removeServantThFromTableByIdx, and the thread's exit
exitRemove(s) ==
    /\ ~crashed
    /\ srv[s].pc = "remove"
    /\ LET idx == srv[s].th_idx
           tbl == [servant_th_table EXCEPT ![idx] = NoSrvEntry]
       IN  IF idx < 0 \/ idx >= servant_th_table_idx
           THEN UNCHANGED <<servant_th_table, servant_th_table_idx>>
           ELSE /\ servant_th_table' = tbl
                /\ servant_th_table_idx' =
                      shrinkServantTh(tbl, servant_th_table_idx, servant_th_table_idx - 1)
    /\ srv' = [srv EXCEPT ![s] = Exited("done", srv[s].why)]
    /\ UNCHANGED <<conn, aux, crashed, th_args, main_pc, conn_n, socks, stop_i, stop_tid>>

(***************************************************************************)
(* stopAllServantThreads.  main calls it after its accept loop, which it   *)
(* never leaves (its run is never cleared), so the daemon as built does    *)
(* not get here; the actions describe what the function does when the     *)
(* loop has ended.                                                         *)
(***************************************************************************)
\* the start of the loop: i = servant_th_table_idx - 1
stopBegin ==
    /\ ~crashed
    /\ main_pc = "accept"
    /\ main_pc' = "stop"
    /\ stop_i' = servant_th_table_idx - 1
    /\ UNCHANGED <<conn, aux, crashed, servant_th_table, servant_th_table_idx, th_args, conn_n,
                   srv, socks, stop_tid>>

\* one pass of the loop up to pthread_join: a running entry gets run = false
stopStep ==
    /\ ~crashed
    /\ main_pc = "stop"
    /\ IF stop_i < 0
       THEN /\ main_pc' = "stopped"
            /\ UNCHANGED <<servant_th_table, stop_i, stop_tid>>
       ELSE IF servant_th_table[stop_i].run
       THEN /\ stop_tid' = servant_th_table[stop_i].tid
            /\ servant_th_table' = [servant_th_table EXCEPT ![stop_i].run = FALSE]
            /\ main_pc' = "join"
            /\ UNCHANGED stop_i
       ELSE /\ stop_i' = stop_i - 1
            /\ UNCHANGED <<servant_th_table, main_pc, stop_tid>>
    /\ UNCHANGED <<conn, aux, crashed, servant_th_table_idx, th_args, conn_n, srv, socks>>

\* pthread_join returns when the thread has exited
stopJoin ==
    /\ ~crashed
    /\ main_pc = "join"
    /\ srv[stop_tid].pc \in {"done", "lost"}
    /\ main_pc' = "stop"
    /\ stop_i' = stop_i - 1
    /\ stop_tid' = 0
    /\ UNCHANGED <<conn, aux, crashed, servant_th_table, servant_th_table_idx, th_args, conn_n,
                   srv, socks>>

(***************************************************************************)
(* Specification Spec: a client that sends up to MaxCmds command lines,     *)
(* each after the job thread of the one before has ended, and up to MaxCtl *)
(* control messages at any time.                                           *)
(***************************************************************************)
\* the command lines the client sends, as the arguments parseMessage yields
CmdLines ==
    { <<"a">>,
      <<"a", " ", "&">>,
      <<"a", " ", "|", " ", "b">>,
      <<">", " ", "f">>,
      <<"j", "o", "b", "s">> }

CtlArgs == {MSG_CTL_SIGINT, MSG_CTL_SIGTSTP, MSG_CTL_EOF}

ClientCMD == \E a \in CmdLines : cmd_n < MaxCmds /\ FreeTids = Tids /\ handleCMDMessages(a) /\ UNCHANGED buf_msg
ClientCTL == \E c \in CtlArgs : ctl_n < MaxCtl /\ servantCTL(c) /\ UNCHANGED buf_msg
Copy == \E t \in Tids : JobCopy(t)
Start == \E t \in Tids : JobStart(t)
Parse == \E t \in Tids : JobParse(t)
Parsed == \E t \in Tids : JobParsed(t)
Run == \E t \in Tids : JobRun(t)
Wait == \E t \in Tids : JobWait(t)
Waited == \E t \in Tids : JobWaited(t)
PostRun == \E t \in Tids : JobPostRun(t)
Maintain == \E t \in Tids : JobMaintain(t)
List == \E t \in Tids : JobsList(t)
Prompt == \E t \in Tids : JobPrompt(t)
Exit == \E t \in Tids : JobExit(t)
Fault == \E t \in Tids : MemoryFault(t)
Terminate == \E p \in Pids : ChildExit(p)

Next ==
    \/ ClientCMD
    \/ ClientCTL
    \/ Copy
    \/ Start
    \/ Parse
    \/ Parsed
    \/ Run
    \/ Wait
    \/ Waited
    \/ PostRun
    \/ Maintain
    \/ List
    \/ Prompt
    \/ Exit
    \/ Fault
    \/ Terminate
    \/ sigChld

Spec == Init /\ [][Next]_vars

\* Spec with every job thread scheduled again and again: a step of a job
\* thread that stays possible is eventually taken.
SpecLive ==
    /\ Spec
    /\ WF_vars(Copy) /\ WF_vars(Start) /\ WF_vars(Parse) /\ WF_vars(Parsed) /\ WF_vars(Run) /\ WF_vars(Wait)
    /\ WF_vars(Waited) /\ WF_vars(PostRun) /\ WF_vars(Maintain) /\ WF_vars(List)
    /\ WF_vars(Prompt) /\ WF_vars(Exit)

(***************************************************************************)
(* Specification SpecRace: a client that sends up to MaxCmds command lines *)
(* without waiting for prompts, so that two job threads run startJob at    *)
(* the same time.                                                          *)
(***************************************************************************)
RaceLines == { <<"a">>, <<">", " ", "f">> }

RaceCMD == \E a \in RaceLines : cmd_n < MaxCmds /\ handleCMDMessages(a) /\ UNCHANGED buf_msg

NextRace ==
    \/ RaceCMD
    \/ Copy
    \/ Start
    \/ Parse
    \/ Parsed
    \/ Run
    \/ Wait
    \/ Waited
    \/ PostRun
    \/ Maintain
    \/ Prompt
    \/ Exit
    \/ Fault
    \/ Terminate
    \/ sigChld

SpecRace == Init /\ [][NextRace]_vars

(***************************************************************************)
(* Specification SpecRaceBg: as SpecRace, for background jobs: the client  *)
(* sends "a &" up to MaxCmds times without waiting for prompts.            *)
(***************************************************************************)
RaceBgCMD == cmd_n < MaxCmds /\ handleCMDMessages(<<"a", " ", "&">>) /\ UNCHANGED buf_msg

NextRaceBg ==
    \/ RaceBgCMD
    \/ Copy
    \/ Start
    \/ Parse
    \/ Parsed
    \/ Run
    \/ PostRun
    \/ Maintain
    \/ Prompt
    \/ Exit
    \/ Fault
    \/ Terminate
    \/ sigChld

SpecRaceBg == Init /\ [][NextRaceBg]_vars

(***************************************************************************)
(* Specification SpecFill: the table close to its capacity.  The           *)
(* connection starts after FillStart background commands "a &" whose       *)
(* children are all still running and whose job threads have ended: the    *)
(* entries 0..FillStart-1 are Running, nothing was removed.  The client    *)
(* then sends "a &" until it has sent MaxFillCmds lines in all, each after *)
(* the job thread of the one before has ended, while no child terminates.  *)
(***************************************************************************)
BgLine == <<"a", " ", "&">>

FillStart == MAX_CONCURRENT_JOBS - 1

\* entry s after the s+1-th "a &" was admitted, parsed and forked
FilledJob(s) ==
    [parseJob(BgLine, [NewJob EXCEPT !.jobno = (s + 1) % 256, !.status = JOB_STATUS_RUNNING,
                                     !.seq = s + 1])
        EXCEPT !.gpid = s + 1]

InitFill ==
    /\ jobs_table = [s \in SlotIds |-> IF s \in 0..(FillStart - 1) THEN FilledJob(s) ELSE UninitJob]
    /\ jobs_table_idx = FillStart
    /\ job_th_table = [k \in ThSlotIds |-> NoThEntry]
    /\ job_th_table_idx = 0
    /\ job_th_args = BgLine
    /\ thr = [t \in Tids |-> IdleThread]
    /\ procs = [k \in 1..FillStart |->
                   [state |-> "running", pgid |-> k, by |-> k, side |-> "left",
                    slot_err |-> FALSE, own_err |-> FALSE]]
    /\ run_serv = TRUE
    /\ cmd_n = FillStart
    /\ ctl_n = 0
    /\ last_kill = NoKill
    /\ crashed = FALSE
    /\ serv_sent = <<CMD_PROMPT>>
    /\ buf_msg = <<>>
    /\ DaemonInit

FillCMD == cmd_n < MaxFillCmds /\ FreeTids = Tids /\ handleCMDMessages(BgLine) /\ UNCHANGED buf_msg

NextFill ==
    \/ FillCMD
    \/ Copy
    \/ Start
    \/ Parse
    \/ Parsed
    \/ Run
    \/ PostRun
    \/ Maintain
    \/ Prompt
    \/ Exit
    \/ Fault

SpecFill == InitFill /\ [][NextFill]_vars

(***************************************************************************)
(* Specification SpecDaemon: the daemon accepts up to MaxConns             *)
(* connections; every servant may at any time get a CTL d, lose its peer   *)
(* or fail in recv().                                                      *)
(***************************************************************************)
Accept == mainAccept(MaxConns)
Register == mainRegister
ServantStart == \E s \in Servants : servantStart(s)
ServantEnd == \E s \in Servants, why \in EndEvents : servantEnd(s, why)
ServantCheckRun == \E s \in Servants : servantCheckRun(s)
ServantSearch == \E s \in Servants : exitSearch(s)
ServantClose == \E s \in Servants : exitClose(s)
ServantRemove == \E s \in Servants : exitRemove(s)

NextDaemon ==
    \/ Accept
    \/ Register
    \/ ServantStart
    \/ ServantEnd
    \/ ServantCheckRun
    \/ ServantSearch
    \/ ServantClose
    \/ ServantRemove

SpecDaemon == Init /\ [][NextDaemon]_vars

(***************************************************************************)
(* Specification SpecStop: SpecDaemon with a daemon that may end its       *)
(* accept loop and run stopAllServantThreads.  Every thread is scheduled   *)
(* again and again: a step of a servant's start, of its check of the run   *)
(* flag (the poll() times out every 500 ms), of its teardown, or of        *)
(* stopAllServantThreads that stays possible is eventually taken.          *)
(***************************************************************************)
NextStop ==
    \/ Accept
    \/ Register
    \/ ServantStart
    \/ ServantEnd
    \/ ServantCheckRun
    \/ ServantSearch
    \/ ServantClose
    \/ ServantRemove
    \/ stopBegin
    \/ stopStep
    \/ stopJoin

SpecStop ==
    /\ Init
    /\ [][NextStop]_vars
    /\ WF_vars(ServantStart) /\ WF_vars(ServantCheckRun) /\ WF_vars(ServantSearch)
    /\ WF_vars(ServantClose) /\ WF_vars(ServantRemove) /\ WF_vars(stopStep) /\ WF_vars(stopJoin)

(***************************************************************************)
(* Specification SpecAccept: a daemon that stays up while clients come and *)
(* go.  It starts after AcceptStart connections, each of which arrived     *)
(* while the one before was still open and outlived it: the count has      *)
(* grown with every connection, because removeServantThFromTableByIdx only *)
(* lowers it over entries above the last running one.  The last client is  *)
(* still connected.  Up to MaxAccepts connections are accepted in all, at  *)
(* most MaxActive of them open at the same time.                           *)
(***************************************************************************)
AcceptStart == MAX_CONCURRENT_CLIENTS - 1

InitAccept ==
    /\ jobs_table = [s \in SlotIds |-> UninitJob]
    /\ jobs_table_idx = 0
    /\ job_th_table = [k \in ThSlotIds |-> NoThEntry]
    /\ job_th_table_idx = 0
    /\ job_th_args = <<>>
    /\ thr = [t \in Tids |-> IdleThread]
    /\ procs = <<>>
    /\ run_serv = TRUE
    /\ cmd_n = 0
    /\ ctl_n = 0
    /\ last_kill = NoKill
    /\ crashed = FALSE
    /\ serv_sent = <<CMD_PROMPT>>
    /\ buf_msg = <<>>
    /\ servant_th_table =
          [k \in SrvSlotIds |->
              IF k = AcceptStart - 1
              THEN [tid |-> AcceptStart, run |-> TRUE, socket |-> AcceptStart]
              ELSE NoSrvEntry]
    /\ servant_th_table_idx = AcceptStart
    /\ th_args = [idx |-> AcceptStart - 1, ps |-> AcceptStart]
    /\ main_pc = "accept"
    /\ conn_n = AcceptStart
    /\ srv = [s \in 1..AcceptStart |->
                 IF s < AcceptStart THEN Exited("done", "disconnect")
                 ELSE [NewServant EXCEPT !.pc = "loop", !.idx = AcceptStart - 1,
                                         !.ps = AcceptStart]]
    /\ socks = {AcceptStart}
    /\ stop_i = -1
    /\ stop_tid = 0
    /\ chan = NoChan
    /\ child = NoChild
    /\ shell_info_lock = NoOwner
    /\ lock_pc = NoLockTasks
    /\ strtok_st = NoStrtok

\* the servants that have not exited
Active == {s \in Servants : srv[s].pc \notin {"done", "lost"}}

AcceptNext == Cardinality(Active) < MaxActive /\ mainAccept(MaxAccepts)

NextAccept ==
    \/ AcceptNext
    \/ Register
    \/ ServantStart
    \/ ServantEnd
    \/ ServantCheckRun
    \/ ServantSearch
    \/ ServantClose
    \/ ServantRemove

SpecAccept == InitAccept /\ [][NextAccept]_vars

(***************************************************************************)
(* Properties.                                                             *)
(***************************************************************************)
\* the children forked by the job thread t
OwnChildren(t) == {p \in Pids : procs[p].by = thr[t].seq}

\* the indexes of the Running and Stopped entries, and the count that would
\* just cover them
LiveIdx == {i \in SlotIds : IsLive(jobs_table[i])}
LiveCount == IF LiveIdx = {} THEN 0 ELSE 1 + (CHOOSE i \in LiveIdx : \A k \in LiveIdx : k <= i)

\* C1: the jobs table count never exceeds MAX_CONCURRENT_JOBS (20).
C1_CountWithinCapacity == jobs_table_idx <= MAX_CONCURRENT_JOBS

\* C2: a step that clears the status of entry i (removeJob(i)) leaves the
\* entry's job number and group id cleared too, and leaves the count at
\* 1 + the largest Running or Stopped index, or at 0 when there is none.
C2_RemoveJobShrinks ==
    [][\A i \in SlotIds :
          (jobs_table[i].status # "" /\ jobs_table'[i].status = "")
             => /\ jobs_table'[i].jobno = 0
                /\ jobs_table'[i].gpid = 0
                /\ jobs_table_idx' = LiveCount']_vars

\* the group id CTL c / CTL z should signal: that of the newest entry below
\* the count that is Running or Stopped, not in the background and has a
\* group id recorded; 0 when there is none
FgTargets == {i \in 0..(jobs_table_idx - 1) :
                 IsLive(jobs_table[i]) /\ ~jobs_table[i].bg /\ jobs_table[i].gpid > 0}
FgTarget == IF FgTargets = {} THEN 0
            ELSE jobs_table[CHOOSE i \in FgTargets : \A k \in FgTargets : k <= i].gpid

\* C3: handling CTL c or CTL z sends the signal to the group id of the
\* newest Running or Stopped non-background job with a recorded group id,
\* and sends no signal when there is no such job.
C3_CtlTargetsNewestForeground ==
    [][(ctl_n' # ctl_n /\ last_kill'.arg \in {MSG_CTL_SIGINT, MSG_CTL_SIGTSTP})
          => /\ last_kill'.pid = FgTarget
             /\ run_serv'
             /\ FgTarget # 0 => last_kill'.sig = (IF last_kill'.arg = MSG_CTL_SIGINT
                                                  THEN "SIGINT" ELSE "SIGTSTP")]_vars

Terminated(p) == procs[p].state \in {"exited", "signaled", "reaped"}

\* C4: when waitForChildren has returned for a foreground job whose children
\* have all terminated, it has counted child_num terminations (2 for a piped
\* job, 1 for a simple one) and the job's error message is empty.
C4_WaitCountsAllChildren ==
    \A t \in Tids :
       (thr[t].pc = "waited" /\ \A p \in OwnChildren(t) : Terminated(p))
          => /\ thr[t].count = thr[t].child_num
             /\ jobs_table[thr[t].wait_cmd].err_msg = EMPTY_STR

\* C5: when the foreground wait of a job thread has returned, no child the
\* thread forked for the job is still running.
C5_ForegroundReturnsAfterChildren ==
    \A t \in Tids :
       thr[t].pc = "waited" => \A p \in OwnChildren(t) : procs[p].state # "running"

AllOwnStopped(t) ==
    /\ OwnChildren(t) # {}
    /\ \A p \in OwnChildren(t) : procs[p].state \in {"stopped_new", "stopped"}

\* C6: a job thread that waits for a foreground job whose children are all
\* stopped eventually gets to send its prompt.
C6_StoppedJobReturns ==
    \A t \in Tids : (thr[t].pc = "wait" /\ AllOwnStopped(t)) ~> (thr[t].pc \in {"prompt", "exit"})

\* C7: once the job thread of a command line with a syntax error is done
\* with startJob, no Running or Stopped entry of the table belongs to that
\* command.
C7_SyntaxErrorJobDiscarded ==
    \A t \in Tids :
       (thr[t].pc \in {"prompt", "exit"} /\ IsNewJob(t) /\ OwnParseError(t))
          => \A i \in 0..(jobs_table_idx - 1) :
                ~(IsLive(jobs_table[i]) /\ jobs_table[i].seq = thr[t].seq)

\* C8: the job thread of a command line with a syntax error has sent, when
\* it ends, "-yash: " followed by the error message of its own parse, and
\* the prompt after it.
C8_SyntaxErrorText ==
    \A t \in Tids :
       (thr[t].pc = "exit" /\ IsNewJob(t) /\ OwnParseError(t))
          => \E k \in 1..(Len(thr[t].sent) - 1) :
                /\ thr[t].sent[k] = "-yash: " \o parseJob(thr[t].args, NewJob).err_msg \o "\n"
                /\ thr[t].sent[Len(thr[t].sent)] = CMD_PROMPT

\* C9: no child is forked on a jobs-table entry that holds an error message.
C9_NoForkOnError == \A p \in Pids : ~procs[p].slot_err

\* C10: of two command lines being handled, the later one is not dispatched
\* (admitted to the table, or run as a built-in) while the earlier one still
\* waits to be.
C10_DispatchInOrder ==
    \A a \in Tids, b \in Tids :
       (thr[a].pc # "idle" /\ thr[b].pc # "idle" /\ thr[a].seq < thr[b].seq
           /\ thr[b].pc \notin {"copy", "start"})
          => thr[a].pc \notin {"copy", "start"}

\* the prompts in what a job thread has sent
Prompts(t) == {k \in 1..Len(thr[t].sent) : thr[t].sent[k] = CMD_PROMPT}

\* C11 (what a job thread does when it ends): a job thread ends only after
\* it has sent the prompt exactly once, as the last thing it sent, and it
\* leaves no entry of the job thread table with its thread id.
C11_EndsAfterOnePrompt ==
    [][\A t \in Tids :
          (thr[t].pc # "idle" /\ thr'[t].pc = "idle")
             => /\ thr[t].pc = "exit"
                /\ Prompts(t) = {Len(thr[t].sent)}
                /\ \A k \in ThSlotIds : job_th_table'[k].tid # t]_vars

\* C11: every job thread started for a CMD message comes to send the prompt
\* and to end, unless children of its job go on running: again and again
\* the thread is idle or has a running child.
C11_TaskPromptsAndExits ==
    \A t \in Tids :
       []<>(thr[t].pc = "idle" \/ \E p \in OwnChildren(t) : procs[p].state = "running")

\* C12: handling a CTL message other than "d" makes the servant send the
\* prompt exactly once, also when no foreground job was there to signal;
\* handling CTL d makes it send nothing.
C12_PromptAfterCtl ==
    [][ctl_n' = ctl_n + 1 =>
          serv_sent' = IF last_kill'.arg = MSG_CTL_EOF
                       THEN serv_sent
                       ELSE Append(serv_sent, CMD_PROMPT)]_vars

\* a CTL c was handled with no foreground job, and the prompt followed
C12_Witness ==
    /\ ctl_n = 1
    /\ last_kill = [NoKill EXCEPT !.arg = MSG_CTL_SIGINT]
    /\ serv_sent = <<CMD_PROMPT, CMD_PROMPT>>


\* C16: a CTL c or CTL z that signals a job reaches every running process
\* of the job's process group: after the kill() none of them is running
\* any more (SIGINT terminates it, SIGTSTP stops it).
C16_SignalReachesGroup ==
    [][(ctl_n' # ctl_n /\ last_kill'.sig # "none")
          => \A p \in Pids :
                (procs[p].pgid = last_kill'.pid /\ procs[p].state = "running")
                   => procs'[p].state # "running"]_vars

\* whether the final token of a command line is '&'
IsBgLine(cmd_str) ==
    LET toks == tokenizeString(cmd_str)
    IN  toks # <<>> /\ toks[Len(toks)] = BG_OPT

\* the pid of the left child forked for the command of thread t
LeftChild(t) == CHOOSE p \in OwnChildren(t) : procs[p].side = "left"

\* the thread of t works on a background job that was launched
BgLaunched(t) == IsBgLine(thr[t].args) /\ IsNewJob(t) /\ OwnChildren(t) # {}

\* C17: the job thread of a background job never waits for a child, and when
\* runJob has returned the job's entry is in the table with status Running
\* and the pid of the left child as its group id.
C17_BackgroundJobNotAwaited ==
    \A t \in Tids :
       BgLaunched(t) =>
          /\ thr[t].pc \notin {"wait", "waited"}
          /\ thr[t].pc = "postrun" =>
                \E i \in 0..(jobs_table_idx - 1) :
                   /\ jobs_table[i].seq = thr[t].seq
                   /\ jobs_table[i].status = JOB_STATUS_RUNNING
                   /\ jobs_table[i].gpid = LeftChild(t)

RECURSIVE markedList(_, _)
\* the lines of the Running and Stopped entries below the count, from i on,
\* with '+' on the entry of the highest Running or Stopped index
markedList(i, sent) ==
    IF i >= jobs_table_idx THEN sent
    ELSE IF IsLive(jobs_table[i])
         THEN markedList(i + 1, Append(sent, printJob(i, jobs_table, LiveCount)))
         ELSE markedList(i + 1, sent)

\* C20: every job line sent carries '+' exactly when its job is the one at
\* the highest Running or Stopped index, and '-' otherwise.  For a Done
\* report the job reported still counts as live (it is marked Done only for
\* the report); for the 'jobs' listing the lines are those of markedList.
C20_PlusMarksNewestLiveJob ==
    [][\A t \in Tids :
          /\ (thr[t].pc = "maintain" /\ Len(thr'[t].sent) > Len(thr[t].sent))
                => thr'[t].sent =
                      Append(thr[t].sent,
                             printJob(thr[t].i,
                                      [jobs_table EXCEPT ![thr[t].i].status = JOB_STATUS_DONE],
                                      LiveCount))
          /\ (thr[t].pc = "jobs_list" /\ thr'[t].pc = "maintain" /\ jobs_table_idx > 0)
                => thr'[t].sent = markedList(0, thr[t].sent)]_vars

\* C15: the count of the servant table never exceeds
\* MAX_CONCURRENT_CLIENTS (50), whatever connections come and go.
C15_ServantCountWithinCapacity == servant_th_table_idx <= MAX_CONCURRENT_CLIENTS

ServantPc(s) == IF s \in Servants THEN srv[s].pc ELSE "none"

\* the run flag of the servant's own entry has been set to false
Cancelled(s) ==
    \E k \in SrvSlotIds : servant_th_table[k].tid = s /\ ~servant_th_table[k].run

MSG_TYPE_CMD == "CMD"
MSG_TYPE_CTL == "CTL"
MSG_TYPE_DELIM == " "

EmptyMsg == [type |-> <<>>, args |-> <<>>, fault |-> FALSE]
FaultMsg == [type |-> <<>>, args |-> <<>>, fault |-> TRUE]

\* strtok's first phase: the delimiters skipped at the start of the string.
RECURSIVE LeadingDelims(_)
LeadingDelims(cs) ==
    IF cs = <<>> \/ Head(cs) # MSG_TYPE_DELIM THEN 0 ELSE 1 + LeadingDelims(Tail(cs))

\* strtok's second phase: the length of the token that starts the string.
RECURSIVE TokenLen(_)
TokenLen(cs) ==
    IF cs = <<>> \/ Head(cs) = MSG_TYPE_DELIM THEN 0 ELSE 1 + TokenLen(Tail(cs))

\* parseMessage: len_orig is taken before the trailing newline is removed;
\* the type is the first blank-delimited token, the arguments are all that
\* follows the delimiter strtok overwrote.  strtok returns NULL when nothing
\* is left, and strcpy from NULL is a memory fault (fault = TRUE).
parseMessage(msg) ==
    LET len_orig == Len(msg)
        m == IF msg[len_orig] = "\n" THEN SubSeq(msg, 1, len_orig - 1) ELSE msg
        lead == LeadingDelims(m)
        tlen == TokenLen(SubSeq(m, lead + 1, Len(m)))
        len_first == lead + tlen
        args == SubSeq(m, len_first + 2, Len(m))
    IN  IF len_orig <= 5 THEN EmptyMsg
        ELSE IF tlen = 0 THEN FaultMsg
        ELSE IF len_first >= len_orig THEN EmptyMsg
        ELSE IF args = <<>> THEN FaultMsg
        ELSE [type |-> SubSeq(m, lead + 1, len_first), args |-> args, fault |-> FALSE]

\* servantThread, recv(): a message arrives in buf_msg.
servantRecv(msg) ==
    /\ ~crashed
    /\ run_serv
    /\ buf_msg = <<>>
    /\ buf_msg' = msg
    /\ UNCHANGED <<daemon, crashed, jobs_table, jobs_table_idx, job_th_table,
                   job_th_table_idx, job_th_args, thr, procs, run_serv, cmd_n,
                   ctl_n, last_kill, serv_sent>>

\* servantThread, after recv(): parse the message and dispatch on its type.
servantDispatch ==
    /\ ~crashed
    /\ buf_msg # <<>>
    /\ buf_msg' = <<>>
    /\ LET msg == parseMessage(buf_msg)
       IN  IF msg.fault
           THEN /\ crashed' = TRUE
                /\ UNCHANGED <<daemon, jobs_table, jobs_table_idx, job_th_table,
                               job_th_table_idx, job_th_args, thr, procs,
                               run_serv, cmd_n, ctl_n, last_kill, serv_sent>>
           ELSE IF Join(msg.type) = MSG_TYPE_CMD
           THEN handleCMDMessages(msg.args)
           ELSE IF Join(msg.type) = MSG_TYPE_CTL
           THEN servantCTL(msg.args[1])
           ELSE UNCHANGED <<daemon, crashed, jobs_table, jobs_table_idx,
                            job_th_table, job_th_table_idx, job_th_args, thr,
                            procs, run_serv, cmd_n, ctl_n, last_kill, serv_sent>>

\* The messages a client sends: the two well-formed ones of the protocol,
\* and messages that are too short, name another type, or carry no argument.
Msgs ==
    { <<"C", "M", "D", " ", "a", "\n">>,
      <<"C", "T", "L", " ", "c", "\n">>,
      <<"C", "T", "L", " ", "c">>,
      <<"C", "M", "D", " ", "\n">>,
      <<"F", "O", "O", " ", "a", "\n">>,
      <<"C", "M", "D", "C", "M", "D", "\n">>,
      <<"C", "M", "D", " ", " ", "\n">> }

Recv == \E msg \in Msgs :
            cmd_n < MaxCmds /\ ctl_n < MaxCtl /\ FreeTids = Tids /\ servantRecv(msg)

NextMsg ==
    \/ Recv
    \/ servantDispatch
    \/ Copy
    \/ Start
    \/ Parse
    \/ Parsed
    \/ Run
    \/ Wait
    \/ Waited
    \/ PostRun
    \/ Maintain
    \/ Prompt
    \/ Exit
    \/ Terminate
    \/ sigChld

SpecMsg == Init /\ [][NextMsg]_vars

\* A malformed message: 5 bytes or less, no argument after the type, or a
\* type other than CMD and CTL.  Its words are its blank-separated tokens.
Malformed(msg) ==
    \/ Len(msg) <= 5
    \/ Len(tokenizeString(msg)) < 2
    \/ tokenizeString(msg)[1] \notin {MSG_TYPE_CMD, MSG_TYPE_CTL}

\* C19: handling a malformed message spawns no job task, sends no signal and
\* no prompt, leaves the jobs table and the job-thread table unchanged, and
\* leaves the servant in its loop.
C19_MalformedDroppedSilently ==
    [][(buf_msg # <<>> /\ buf_msg' = <<>> /\ Malformed(buf_msg))
        => UNCHANGED <<jobs_table, jobs_table_idx, job_th_table, job_th_table_idx,
                       thr, procs, last_kill, serv_sent, run_serv, crashed>>]_vars

\* C18: the teardown of one servant leaves the other servants running: no
\* step takes away the run flag that a servant in its message loop watches,
\* on which that servant would leave the loop.
C18_TeardownLeavesOthersRunning ==
    [][\A s \in Servants :
          (srv[s].pc = "loop" /\ srv'[s].pc = "loop" /\ servant_th_table[srv[s].idx].run)
              => servant_th_table'[srv[s].idx].run]_vars

(***************************************************************************)
(* Specification SpecJobs: the client starts one background job and then   *)
(* sends 'jobs' twice, each message after the prompt of the one before;    *)
(* no child changes state and no control message is sent.                  *)
(***************************************************************************)
\* CMD messages the client sends in specification SpecJobs
MaxJobsCmds == 3
JobsLine == <<"j", "o", "b", "s">>

JobsCMD ==
    /\ cmd_n < MaxJobsCmds
    /\ \A t \in Tids : thr[t].pc \in {"idle", "exit"}
    /\ handleCMDMessages(IF cmd_n = 0 THEN BgLine ELSE JobsLine)
    /\ UNCHANGED buf_msg

NextJobs ==
    \/ JobsCMD
    \/ Copy
    \/ Start
    \/ Parse
    \/ Parsed
    \/ Run
    \/ PostRun
    \/ Maintain
    \/ List
    \/ Prompt
    \/ Exit

SpecJobs == Init /\ [][NextJobs]_vars

\* the job thread of the n-th CMD message has run 'jobs' and sent its prompt
JobsRunDone(t, n) ==
    thr[t].pc = "exit" /\ thr[t].seq = n /\ Join(thr[t].args) = CMD_JOBS

\* C21: two runs of 'jobs' in a row, with nothing happening in between,
\* send the same lines.
C21_JobsTwiceSameOutput ==
    \A t1 \in Tids, t2 \in Tids :
        (JobsRunDone(t1, 2) /\ JobsRunDone(t2, 3)) => thr[t1].sent = thr[t2].sent

\* C22: every live entry of the jobs table holds the job number of its
\* place, index + 1, the number it was given at admission; so no two live
\* jobs have the same number.
C22_JobNumberIsIndexPlusOne ==
    \A i \in 0..(MAX_CONCURRENT_JOBS - 1) :
        IsLive(jobs_table[i]) => jobs_table[i].jobno = i + 1

(***************************************************************************)
(* handleNewJob's admission statement by statement.  startJob runs without *)
(* shell_info_lock, so another job thread of the connection can act        *)
(* between any two reads or writes of jobs_table and jobs_table_idx; the   *)
(* statement that stores the job number reads jobs_table_idx twice, for    *)
(* the value and for the place.  thr[t].reg is the value read.             *)
(***************************************************************************)
\* the test of the count and jobs_table[jobs_table_idx] = job
admitCopy(t) ==
    /\ ~crashed
    /\ thr[t].pc = "start"
    /\ IsNewJob(t)
    /\ jobs_table_idx - 1 < MAX_CONCURRENT_JOBS
    /\ jobs_table' = [jobs_table EXCEPT ![jobs_table_idx] = [NewJob EXCEPT !.seq = thr[t].seq]]
    /\ thr' = [thr EXCEPT ![t].pc = "admit_value"]
    /\ UNCHANGED <<daemon, serv_sent, buf_msg, job_th_args, jobs_table_idx, job_th_table,
                   job_th_table_idx, procs, run_serv, cmd_n, ctl_n, last_kill, crashed>>

\* ... .jobno = (jobs_table_idx)+1: the value
admitValue(t) ==
    /\ ~crashed
    /\ thr[t].pc = "admit_value"
    /\ thr' = [thr EXCEPT ![t].pc = "admit_store", ![t].reg = (jobs_table_idx + 1) % 256]
    /\ UNCHANGED <<daemon, serv_sent, buf_msg, job_th_args, jobs_table, jobs_table_idx,
                   job_th_table, job_th_table_idx, procs, run_serv, cmd_n, ctl_n, last_kill,
                   crashed>>

\* jobs_table[jobs_table_idx].jobno = ...: the store
admitStore(t) ==
    /\ ~crashed
    /\ thr[t].pc = "admit_store"
    /\ jobs_table' = [jobs_table EXCEPT ![jobs_table_idx].jobno = thr[t].reg]
    /\ thr' = [thr EXCEPT ![t].pc = "admit_status", ![t].reg = 0]
    /\ UNCHANGED <<daemon, serv_sent, buf_msg, job_th_args, jobs_table_idx, job_th_table,
                   job_th_table_idx, procs, run_serv, cmd_n, ctl_n, last_kill, crashed>>

\* strcpy(jobs_table[jobs_table_idx].status, JOB_STATUS_RUNNING)
admitStatus(t) ==
    /\ ~crashed
    /\ thr[t].pc = "admit_status"
    /\ jobs_table' = [jobs_table EXCEPT ![jobs_table_idx].status = JOB_STATUS_RUNNING]
    /\ thr' = [thr EXCEPT ![t].pc = "admit_count"]
    /\ UNCHANGED <<daemon, serv_sent, buf_msg, job_th_args, jobs_table_idx, job_th_table,
                   job_th_table_idx, procs, run_serv, cmd_n, ctl_n, last_kill, crashed>>

\* (jobs_table_idx)++
admitCount(t) ==
    /\ ~crashed
    /\ thr[t].pc = "admit_count"
    /\ jobs_table_idx' = jobs_table_idx + 1
    /\ thr' = [thr EXCEPT ![t].pc = "parse"]
    /\ UNCHANGED <<daemon, serv_sent, buf_msg, job_th_args, jobs_table, job_th_table,
                   job_th_table_idx, procs, run_serv, cmd_n, ctl_n, last_kill, crashed>>

(***************************************************************************)
(* Specification SpecAdmit: two command lines sent back to back, their job *)
(* threads admitting their jobs at the same time.                          *)
(***************************************************************************)
AdmitCMD == \E a \in RaceLines : cmd_n < MaxCmds /\ handleCMDMessages(a) /\ UNCHANGED buf_msg
AdmitCopy == \E t \in Tids : admitCopy(t)
AdmitValue == \E t \in Tids : admitValue(t)
AdmitStore == \E t \in Tids : admitStore(t)
AdmitStatus == \E t \in Tids : admitStatus(t)
AdmitCount == \E t \in Tids : admitCount(t)

NextAdmit ==
    \/ AdmitCMD
    \/ Copy
    \/ AdmitCopy
    \/ AdmitValue
    \/ AdmitStore
    \/ AdmitStatus
    \/ AdmitCount
    \/ Parse
    \/ Parsed

SpecAdmit == Init /\ [][NextAdmit]_vars

(***************************************************************************)
(* Specification SpecParse: one command line of up to MaxToks tokens,      *)
(* words and metacharacters in any order, taken up to the end of           *)
(* handleNewJob's parse step.                                              *)
(***************************************************************************)
\* tokens of a command line in specification SpecParse
MaxToks == 5
ParseTokens == {"a", "b"} \cup MetaTokens
TokLines == UNION {[1..n -> ParseTokens] : n \in 1..MaxToks}

\* the characters of a token
TokChars(tok) == IF tok = E_REDIR_OPT THEN <<"2", ">">> ELSE <<tok>>

RECURSIVE LineOf(_)
\* the command line the client types for the tokens: one blank between two
LineOf(toks) ==
    IF toks = <<>> THEN <<>>
    ELSE TokChars(Head(toks)) \o (IF Len(toks) > 1 THEN <<" ">> ELSE <<>>) \o LineOf(Tail(toks))

ParseCMD ==
    /\ cmd_n < 1
    /\ \E toks \in TokLines : handleCMDMessages(LineOf(toks)) /\ UNCHANGED buf_msg

NextParse ==
    \/ ParseCMD
    \/ Copy
    \/ Start
    \/ Parse

SpecParse == Init /\ [][NextParse]_vars

\* the tokens of the command line job thread t was given
Toks(t) == tokenizeString(thr[t].args)
\* job thread t has returned from parseJob: the entry parsed
AfterParse(t) == thr[t].pc = "parsed"
ParsedJob == jobs_table[jobs_table_idx - 1]
Accepted(t) == AfterParse(t) /\ ParsedJob.err_msg = EMPTY_STR

\* C23: a command line whose first token is a metacharacter leaves parseJob
\* with a syntax error.
C23_LeadingMetaIsError ==
    \A t \in Tids :
        (AfterParse(t) /\ Toks(t)[1] \in MetaTokens) => ParsedJob.err_msg # EMPTY_STR

RedirOrPipe == {I_REDIR_OPT, O_REDIR_OPT, E_REDIR_OPT, PIPE_OPT}

\* C24: in an accepted command line no redirection or pipe token is the last
\* token or stands right before another metacharacter, '&' is the last
\* token only, and the job is a background job exactly when the last token
\* is '&'.
C24_AcceptedLineIsWellFormed ==
    \A t \in Tids :
        Accepted(t) =>
            LET toks == Toks(t)
                n == Len(toks)
            IN  /\ toks[n] \notin RedirOrPipe
                /\ \A k \in 1..(n - 1) : toks[k] \in RedirOrPipe => toks[k + 1] \notin MetaTokens
                /\ \A k \in 1..n : toks[k] = BG_OPT => k = n
                /\ ParsedJob.bg <=> toks[n] = BG_OPT


\* C25: an accepted command line holds at most one '|'.
C25_AtMostOnePipe ==
    \A t \in Tids :
        Accepted(t) => Cardinality({k \in 1..Len(Toks(t)) : Toks(t)[k] = PIPE_OPT}) <= 1

\* the first path that follows the redirection token r on the side of the
\* pipe given by right; "" when there is none
RECURSIVE FirstPath(_, _, _, _)
FirstPath(toks, r, right, seen_pipe) ==
    IF Len(toks) < 2 THEN ""
    ELSE IF Head(toks) = PIPE_OPT THEN FirstPath(Tail(toks), r, right, TRUE)
    ELSE IF Head(toks) = r /\ seen_pipe = right THEN toks[2]
    ELSE FirstPath(Tail(toks), r, right, seen_pipe)

\* C26: in an accepted job every path is the one of the first redirection of
\* its direction on its side; a later one does not replace it.
C26_FirstRedirectionStays ==
    \A t \in Tids :
        Accepted(t) =>
            /\ ParsedJob.in1 = FirstPath(Toks(t), I_REDIR_OPT, FALSE, FALSE)
            /\ ParsedJob.out1 = FirstPath(Toks(t), O_REDIR_OPT, FALSE, FALSE)
            /\ ParsedJob.err1 = FirstPath(Toks(t), E_REDIR_OPT, FALSE, FALSE)
            /\ ParsedJob.in2 = FirstPath(Toks(t), I_REDIR_OPT, TRUE, FALSE)
            /\ ParsedJob.out2 = FirstPath(Toks(t), O_REDIR_OPT, TRUE, FALSE)
            /\ ParsedJob.err2 = FirstPath(Toks(t), E_REDIR_OPT, TRUE, FALSE)

\* C27: an accepted piped job has a right command of at least one word; an
\* accepted job without pipe has an empty right side.
C27_RightSideMatchesPipe ==
    \A t \in Tids :
        Accepted(t) =>
            /\ ParsedJob.pipe => Len(ParsedJob.cmd2) >= 1
            /\ ~ParsedJob.pipe =>
                  /\ ParsedJob.cmd2 = <<>>
                  /\ ParsedJob.in2 = EMPTY_STR
                  /\ ParsedJob.out2 = EMPTY_STR
                  /\ ParsedJob.err2 = EMPTY_STR


(***************************************************************************)
(* The framed byte stream: sendMsg and recvMsg.                            *)
(*                                                                         *)
(* sendMsg puts two start delimiters before the message and two end        *)
(* delimiters after it and hands the bytes to send().  recvMsg reads the   *)
(* socket one byte at a time.  It keeps the result of recv() in a size_t,  *)
(* so the -1 of a recv that has nothing to deliver (EAGAIN on the          *)
(* non-blocking socket the function is written for, EINTR, a reset) is a   *)
(* large positive number: neither "rc < 0" nor "rc == 0" is true and the   *)
(* code goes on to examine buf, which still holds the byte of the recv     *)
(* before it, or nothing that was ever written when it is the first recv.  *)
(***************************************************************************)
MSG_START_DELIMITER == 2
MSG_END_DELIMITER == 3

MaxPayload == 3
MaxGarbage == 2
MaxRecvFail == 2

\* the byte values: the two delimiters and one ordinary character
Bytes == {MSG_START_DELIMITER, MSG_END_DELIMITER, 65}
ByteSeqs(n) == UNION {[1..k -> Bytes] : k \in 0..n}

\* the bytes sendMsg gives to send()
sendMsg(msg) ==
    <<MSG_START_DELIMITER, MSG_START_DELIMITER>> \o msg
        \o <<MSG_END_DELIMITER, MSG_END_DELIMITER>>

\* recvMsg after a recv() whose result it takes for one byte, b being what
\* buf holds: start1 and start2 are the two recv calls of the first loop,
\* body and end2 those of the second
recvMsgByte(c, b) ==
    CASE c.pc = "start1" ->
            [c EXCEPT !.pc = IF b = MSG_START_DELIMITER THEN "start2" ELSE "start1"]
      [] c.pc = "start2" ->
            [c EXCEPT !.pc = IF b = MSG_START_DELIMITER THEN "body" ELSE "start1"]
      [] c.pc = "body" ->
            IF b = MSG_END_DELIMITER
            THEN [c EXCEPT !.pc = "end2"]
            ELSE [c EXCEPT !.in = Append(@, b)]
      [] c.pc = "end2" ->
            IF b = MSG_END_DELIMITER
            THEN [c EXCEPT !.pc = "done", !.ret = Len(c.in)]
            ELSE [c EXCEPT !.pc = "body"]

Receiving == chan.pc \in {"start1", "start2", "body", "end2"}
FrameRest == UNCHANGED <<conn, crashed, child, shell_info_lock, lock_pc, strtok_st, servant_th_table, servant_th_table_idx, th_args,
                         main_pc, conn_n, srv, socks, stop_i, stop_tid>>

\* the peer: some bytes already in the socket, then sendMsg(payload)
FrameSend ==
    /\ ~chan.sent /\ ~chan.closed
    /\ \E payload \in ByteSeqs(MaxPayload), garbage \in ByteSeqs(MaxGarbage) :
          chan' = [chan EXCEPT !.out = payload, !.pre = garbage, !.sent = TRUE,
                               !.wire = chan.wire \o garbage \o sendMsg(payload)]
    /\ FrameRest

\* the peer closes the connection
FrameClose ==
    /\ ~chan.closed
    /\ chan' = [chan EXCEPT !.closed = TRUE]
    /\ FrameRest

\* recvMsg is called: msg_size = 0 and the buffer is cleaned
RecvCall ==
    /\ chan.pc = "idle"
    /\ chan' = [chan EXCEPT !.pc = "start1", !.in = <<>>]
    /\ FrameRest

\* recv() delivers the next byte of the socket
RecvByte ==
    /\ Receiving
    /\ chan.wire # <<>>
    /\ chan' = recvMsgByte([chan EXCEPT !.wire = Tail(@), !.buf = Head(chan.wire),
                                        !.buf_set = TRUE], Head(chan.wire))
    /\ FrameRest

\* recv() returns -1: buf is not written and is examined nevertheless; a buf
\* that no recv has written yet holds whatever byte the stack held
RecvFail ==
    /\ Receiving
    /\ chan.fails < MaxRecvFail
    /\ \E b \in (IF chan.buf_set THEN {chan.buf} ELSE Bytes) :
          chan' = recvMsgByte([chan EXCEPT !.fails = @ + 1], b)
    /\ FrameRest

\* recv() returns 0, the peer has closed and the socket is empty: recvMsg
\* returns -1
RecvClosed ==
    /\ Receiving
    /\ chan.closed /\ chan.wire = <<>>
    /\ chan' = [chan EXCEPT !.pc = "done", !.ret = -1]
    /\ FrameRest

NextFrame ==
    \/ FrameSend
    \/ FrameClose
    \/ RecvCall
    \/ RecvByte
    \/ RecvFail
    \/ RecvClosed

SpecFrame == Init /\ [][NextFrame]_vars

\* the bytes of a sequence
Range(seq) == {seq[i] : i \in 1..Len(seq)}

\* C28: when recvMsg has returned on a stream that is sendMsg(payload) after
\* garbage bytes, the payload holding neither delimiter and the garbage no
\* start delimiter, it has returned the payload's length and the receiver's
\* buffer holds exactly the payload.
C28_FrameRoundTrip ==
    (/\ chan.pc = "done"
     /\ chan.sent
     /\ Range(chan.out) \cap {MSG_START_DELIMITER, MSG_END_DELIMITER} = {}
     /\ MSG_START_DELIMITER \notin Range(chan.pre))
        => (chan.ret = Len(chan.out) /\ chan.in = chan.out)

(***************************************************************************)
(* The child of runJob between fork() and execvp() or exit().              *)
(*                                                                         *)
(* The child makes the client socket its standard output and standard      *)
(* error (the left child of a pipe: the pipe its standard output) and      *)
(* closes the socket's own descriptor ps, then applies the redirections of *)
(* the command line.  What it reports afterwards it reports with printf(), *)
(* that is on whatever descriptor 1 refers to by then, and exit() flushes  *)
(* it there; the left child also calls send() on ps, which it has closed.  *)
(***************************************************************************)
EXIT_ERR_CMD == 6

RedirKinds == {"none", "ok", "fail"}
Redirs == [in : RedirKinds, out : RedirKinds, err : RedirKinds]

\* the children runJob forks: the child of a simple job and the two of a pipe
ChildKinds == {<<FALSE, "left">>, <<TRUE, "left">>, <<TRUE, "right">>}

\* the name of the file a redirection of the child names
RedirPath(c, r) == r \o (IF c.side = "left" THEN "1" ELSE "2")

\* err_msg after a failed open(), here with ENOENT = 2
redirErr(c, r) == "open errno " \o "2" \o ": could not open file: " \o RedirPath(c, r)

\* redirectSimple and redirectPipe: input, output, error in this order, and
\* the first open() that fails sets err_msg and returns
redirect(c) ==
    IF c.redir.in = "fail" THEN [c EXCEPT !.err_msg = redirErr(c, "in")]
    ELSE LET c1 == IF c.redir.out = "ok" THEN [c EXCEPT !.out = "file"] ELSE c
         IN  IF c.redir.out = "fail" THEN [c EXCEPT !.err_msg = redirErr(c, "out")]
             ELSE IF c.redir.err = "fail" THEN [c1 EXCEPT !.err_msg = redirErr(c, "err")]
             ELSE IF c.redir.err = "ok" THEN [c1 EXCEPT !.err = "file"]
             ELSE c1

\* printf(line) followed by the flush of exit(): the line goes where the
\* child's descriptor 1 leads
childPrintf(c, line) ==
    CASE c.out = "socket" -> [c EXCEPT !.sock = Append(@, line)]
      [] c.out = "pipe"   -> [c EXCEPT !.pipe_w = Append(@, line)]
      [] c.out = "file"   -> [c EXCEPT !.file_w = Append(@, line)]

\* send(ps, buf, strlen(buf), 0): on a closed descriptor it fails with EBADF
\* whatever buf holds
childSend(c, line) == IF c.ps_open THEN [c EXCEPT !.sock = Append(@, line)] ELSE c

VerboseChildLine ==
    "-yash: children process group: ignoring signal SIGTTOU, but getting all the others\n"
RedirErrLine(c) == "-yash: " \o c.err_msg \o "\n"
ExecErrLine == "-yash: execvp() errno: 2\n"

ChildRest == UNCHANGED <<conn, crashed, chan, shell_info_lock, lock_pc, strtok_st, servant_th_table, servant_th_table_idx, th_args,
                         main_pc, conn_n, srv, socks, stop_i, stop_tid>>

\* fork(): the child starts with the daemon's descriptors and memory
ChildFork ==
    /\ child.pc = "none"
    /\ \E k \in ChildKinds, v \in BOOLEAN, r \in Redirs, x \in BOOLEAN :
          child' = [NoChild EXCEPT !.pc = IF k[2] = "left" THEN "verbose" ELSE "dup",
                                   !.pipe = k[1], !.side = k[2], !.verbose = v,
                                   !.redir = r, !.exec_ok = x]
    /\ ChildRest

\* the left child's verbose message, sent on ps
ChildVerbose ==
    /\ child.pc = "verbose"
    /\ child' = [(IF child.verbose
                  THEN [childSend(child, VerboseChildLine) EXCEPT !.buf_set = TRUE]
                  ELSE child) EXCEPT !.pc = "dup"]
    /\ ChildRest

\* the dup2() calls and close(ps)
ChildDup ==
    /\ child.pc = "dup"
    /\ child' = [child EXCEPT !.out = IF child.pipe /\ child.side = "left"
                                      THEN "pipe" ELSE "socket",
                              !.err = "socket", !.ps_open = FALSE, !.pc = "redirect"]
    /\ ChildRest

\* redirectSimple (left) or redirectPipe (right) and the test of err_msg
ChildRedirect ==
    /\ child.pc = "redirect"
    /\ LET c == redirect(child)
       IN  child' = [c EXCEPT !.pc = IF c.err_msg # EMPTY_STR THEN "redir_err" ELSE "exec"]
    /\ ChildRest

\* the redirection failed: printf of the error line, in the left child a
\* send() of buf (the verbose message, or memory nothing has written) on
\* ps, and exit(EXIT_ERR_CMD)
ChildRedirError ==
    /\ child.pc = "redir_err"
    /\ LET c1 == childPrintf(child, RedirErrLine(child))
           c2 == IF child.side = "left" THEN childSend(c1, VerboseChildLine) ELSE c1
       IN  child' = [c2 EXCEPT !.pc = "exited", !.fail = "redir", !.code = EXIT_ERR_CMD]
    /\ ChildRest

\* execvp(): the command runs, or the call returns -1, the error line is
\* printed when the daemon is verbose, and the child exits
ChildExec ==
    /\ child.pc = "exec"
    /\ child' = IF child.exec_ok
                THEN [child EXCEPT !.pc = "running", !.executed = TRUE]
                ELSE [(IF child.verbose THEN childPrintf(child, ExecErrLine) ELSE child)
                        EXCEPT !.pc = "exited", !.fail = "exec", !.code = EXIT_ERR_CMD]
    /\ ChildRest

NextChild ==
    \/ ChildFork
    \/ ChildVerbose
    \/ ChildDup
    \/ ChildRedirect
    \/ ChildRedirError
    \/ ChildExec

SpecChild == Init /\ [][NextChild]_vars

\* the line that reports why the child left
ChildErrLine == IF child.fail = "redir" THEN RedirErrLine(child) ELSE ExecErrLine

\* C29: a child that has left before running its command (a redirection
\* file could not be opened, or execvp failed) has not executed the command,
\* has exit status 6, and its '-yash: ' error line is among the lines it
\* delivered to the client socket, for the child of a simple job and both
\* children of a pipe, verbose or not.
C29_ChildFailureReported ==
    child.pc = "exited"
        => /\ ~child.executed
           /\ child.code = EXIT_ERR_CMD
           /\ ChildErrLine \in Range(child.sock)

(***************************************************************************)
(* Specification SpecNoop: a background job is launched, then the client   *)
(* sends lines that start no job: blanks, 'bg' and 'fg'.  The child of     *)
(* the background job may terminate at any moment.                         *)
(***************************************************************************)
NoopLines == { <<" ">>, <<" ", " ">>, <<"b", "g">>, <<"f", "g">> }

NoopCMD ==
    /\ cmd_n < MaxJobsCmds
    /\ \A t \in Tids : thr[t].pc \in {"idle", "exit"}
    /\ \E a \in (IF cmd_n = 0 THEN {BgLine} ELSE NoopLines) : handleCMDMessages(a)
    /\ UNCHANGED buf_msg

NextNoop ==
    \/ NoopCMD
    \/ Copy
    \/ Start
    \/ Parse
    \/ Parsed
    \/ Run
    \/ PostRun
    \/ Maintain
    \/ Prompt
    \/ Exit
    \/ Terminate

SpecNoop == Init /\ [][NextNoop]_vars

\* the job thread t is inside startJob for a blank line, 'bg' or 'fg'
InNoop(t) ==
    /\ thr[t].pc \in {"start", "maintain", "prompt"}
    /\ (ignoreInput(thr[t].args) \/ Join(thr[t].args) \in {CMD_BG, CMD_FG})

\* the status of every entry of the jobs table
Statuses == [i \in SlotIds |-> jobs_table[i].status]

\* C30: a step of the job thread of a CMD whose line is blank, 'bg' or 'fg'
\* admits no job (the count of the jobs table does not change), forks no
\* child, changes the status of no entry, and sends the client nothing but the
\* prompt.
C30_NoopLineHasNoEffect ==
    [][\A t \in Tids :
          (InNoop(t) /\ thr'[t] # thr[t])
              => /\ jobs_table_idx' = jobs_table_idx
                 /\ Len(procs') = Len(procs)
                 /\ Statuses' = Statuses
                 /\ \/ thr'[t].sent = thr[t].sent
                    \/ thr'[t].sent = Append(thr[t].sent, CMD_PROMPT)]_vars

\* the job threads that are between the first and the last statement of
\* handleNewJob's admission, which writes the jobs table and its count
InAdmission == {t \in Tids : thr[t].pc \in {"admit_value", "admit_store", "admit_status",
                                            "admit_count"}}

\* C31: the jobs table is only read and written under the connection's mutex,
\* so at most one task at a time is inside a mutation of the jobs table (here
\* handleNewJob's admission of a job).
C31_OneTaskMutatesJobsTable == Cardinality(InAdmission) <= 1

\* the job threads of the connection that have not terminated
LiveJobThreads == {t \in Tids : thr[t].pc # "idle"}

\* C34: once the servant has completed its teardown (its thread has exited
\* and its ShellInfo, a local of servantThread, is gone), every job thread of
\* the connection has terminated.
C34_NoJobThreadOutlivesServant == ~run_serv => LiveJobThreads = {}

(***************************************************************************)
(* Specification SpecScan: two background jobs are launched one after the  *)
(* other, then the client sends a blank line, whose job thread does        *)
(* nothing but scan the jobs table in maintainJobsTable.  The children     *)
(* terminate at any moment.                                                *)
(***************************************************************************)
MaxScanCmds == 3

ScanCMD ==
    /\ cmd_n < MaxScanCmds
    /\ \A t \in Tids : thr[t].pc \in {"idle", "exit"}
    /\ handleCMDMessages(IF cmd_n < MaxScanCmds - 1 THEN BgLine ELSE <<" ">>)
    /\ UNCHANGED buf_msg

NextScan ==
    \/ ScanCMD
    \/ Copy
    \/ Start
    \/ Parse
    \/ Parsed
    \/ Run
    \/ PostRun
    \/ Maintain
    \/ Prompt
    \/ Exit
    \/ Terminate

SpecScan == Init /\ [][NextScan]_vars

\* the job thread t is about to poll, in maintainJobsTable, a live entry
\* whose children have no state change to report
PollsNothing(t) ==
    /\ thr[t].pc = "maintain"
    /\ thr[t].i < jobs_table_idx
    /\ IsLive(jobs_table[thr[t].i])
    /\ Reportable(jobs_table[thr[t].i].gpid) = {}

\* C32: a pass of maintainJobsTable over a live job whose poll reports no
\* state change leaves the jobs table and its count as they are and sends
\* nothing, also when an earlier pass of the same scan found a terminated job.
C32_NoEventNoChange ==
    [][\A t \in Tids :
          (PollsNothing(t) /\ thr'[t] # thr[t])
              => /\ jobs_table' = jobs_table
                 /\ jobs_table_idx' = jobs_table_idx
                 /\ thr'[t].sent = thr[t].sent]_vars

\* the job thread t is inside runJob or waitForChildren, where every access
\* goes to the entry below the count
InRunJob(t) == thr[t].pc \in {"run", "wait", "waited"}

\* C33: the jobs-table entry into which a job thread records the group id,
\* on which it waits and which it removes afterwards (the entry below the
\* count) is the entry of that thread's own job, whatever other CMDs were
\* admitted or removed meanwhile.
C33_JobThreadWorksOnOwnEntry ==
    \A t \in Tids : InRunJob(t) => jobs_table[jobs_table_idx - 1].seq = thr[t].seq

(***************************************************************************)
(* The mutex shell_info_lock.                                              *)
(*                                                                         *)
(* Every servant thread initialises it when it starts, takes it around     *)
(* the refresh of the stdin pipe, in handleCMDMessages around the          *)
(* registration of the job thread and in handleCTLMessages around the      *)
(* scan for the foreground job; a job thread takes it when it looks itself *)
(* up in the job-thread table and when it removes its entry.  A task that  *)
(* calls pthread_mutex_lock continues when the mutex is free; while        *)
(* another task holds it, or the caller itself, it does not.               *)
(***************************************************************************)
Servant(c) == <<c, "servant">>
JobTh(c) == <<c, "job">>

\* pthread_mutex_unlock by task a: the mutex is free afterwards when a holds
\* it; an unlock of a mutex the caller does not hold is undefined, the mutex
\* is then free or as it was
Unlocked(a) == IF shell_info_lock = a THEN {NoOwner} ELSE {NoOwner, shell_info_lock}

\* pthread_mutex_init on the mutex: initialising a mutex that is held is
\* undefined, the mutex is then free or as it was
Initialised == IF shell_info_lock = NoOwner THEN {NoOwner} ELSE {NoOwner, shell_info_lock}

LockRest == UNCHANGED <<conn, crashed, chan, child, strtok_st, servant_th_table, servant_th_table_idx,
                        th_args, main_pc, conn_n, srv, socks, stop_i, stop_tid>>

\* task a goes from pc from to pc to and takes the mutex
lockStep(a, from, to) ==
    /\ lock_pc[a] = from
    /\ shell_info_lock = NoOwner
    /\ shell_info_lock' = a
    /\ lock_pc' = [lock_pc EXCEPT ![a] = to]
    /\ LockRest

\* task a goes from pc from to pc to and releases the mutex
unlockStep(a, from, to) ==
    /\ lock_pc[a] = from
    /\ \E o \in Unlocked(a) : shell_info_lock' = o
    /\ lock_pc' = [lock_pc EXCEPT ![a] = to]
    /\ LockRest

\* servantThread starts for a new connection: pthread_mutex_init
servantInitLock(c) ==
    /\ lock_pc[Servant(c)] = "unborn"
    /\ \E o \in Initialised : shell_info_lock' = o
    /\ lock_pc' = [lock_pc EXCEPT ![Servant(c)] = "loop"]
    /\ LockRest

\* the servant has read a message: a CMD or a CTL
servantMessage(c) ==
    /\ lock_pc[Servant(c)] = "loop"
    /\ \E to \in {"cmd_refresh", "ctl_lock"} : lock_pc' = [lock_pc EXCEPT ![Servant(c)] = to]
    /\ UNCHANGED shell_info_lock
    /\ LockRest

\* CMD: the lock before the refresh of the stdin pipe
servantRefreshLock(c) == lockStep(Servant(c), "cmd_refresh", "cmd_pipe")

\* pipe() succeeds and the mutex is released, or it fails and the servant
\* leaves through pthread_exit
servantRefreshPipe(c) ==
    \/ unlockStep(Servant(c), "cmd_pipe", "cmd_lock")
    \/ /\ lock_pc[Servant(c)] = "cmd_pipe"
       /\ lock_pc' = [lock_pc EXCEPT ![Servant(c)] = "exited"]
       /\ UNCHANGED shell_info_lock
       /\ LockRest

\* handleCMDMessages: the lock before job_th_table[...].run = true
cmdLock(c) == lockStep(Servant(c), "cmd_lock", "cmd_create")

\* handleCMDMessages: pthread_create succeeds, the entry is completed and the
\* mutex released (the model follows the first job thread of a connection),
\* or it fails and the function returns
cmdCreate(c) ==
    \/ /\ lock_pc[Servant(c)] = "cmd_create"
       /\ \E o \in Unlocked(Servant(c)) : shell_info_lock' = o
       /\ lock_pc' = [lock_pc EXCEPT ![Servant(c)] = "loop",
                                     ![JobTh(c)] = IF @ \in {"unborn", "done"} THEN "running" ELSE @]
       /\ LockRest
    \/ /\ lock_pc[Servant(c)] = "cmd_create"
       /\ lock_pc' = [lock_pc EXCEPT ![Servant(c)] = "loop"]
       /\ UNCHANGED shell_info_lock
       /\ LockRest

\* handleCTLMessages: the lock before the scan
ctlLock(c) == lockStep(Servant(c), "ctl_lock", "ctl_handle")

\* handleCTLMessages after the scan: every branch releases the mutex, the
\* branches for "d" end the servant in exitServantThreadSafely
ctlHandle(c) ==
    \E arg \in CtlArgs \cup {"x"} :
        unlockStep(Servant(c), "ctl_handle", IF arg = MSG_CTL_EOF THEN "exited" ELSE "loop")

\* the job thread has sent its prompt and calls exitJobThreadSafely
jobLeaves(c) ==
    /\ lock_pc[JobTh(c)] = "running"
    /\ lock_pc' = [lock_pc EXCEPT ![JobTh(c)] = "search_lock"]
    /\ UNCHANGED shell_info_lock
    /\ LockRest

\* searchJobThByTid and removeJobThFromTableByIdx, each under the mutex
jobSearchLock(c) == lockStep(JobTh(c), "search_lock", "search")
jobSearch(c) == unlockStep(JobTh(c), "search", "remove_lock")
jobRemoveLock(c) == lockStep(JobTh(c), "remove_lock", "remove")
jobRemove(c) == unlockStep(JobTh(c), "remove", "done")

ServantInitLock == \E c \in LockConns : servantInitLock(c)
ServantMessage == \E c \in LockConns : servantMessage(c)
ServantRefreshLock == \E c \in LockConns : servantRefreshLock(c)
ServantRefreshPipe == \E c \in LockConns : servantRefreshPipe(c)
CmdLock == \E c \in LockConns : cmdLock(c)
CmdCreate == \E c \in LockConns : cmdCreate(c)
CtlLock == \E c \in LockConns : ctlLock(c)
CtlHandle == \E c \in LockConns : ctlHandle(c)
JobLeaves == \E c \in LockConns : jobLeaves(c)
JobSearchLock == \E c \in LockConns : jobSearchLock(c)
JobSearch == \E c \in LockConns : jobSearch(c)
JobRemoveLock == \E c \in LockConns : jobRemoveLock(c)
JobRemove == \E c \in LockConns : jobRemove(c)

NextLock ==
    \/ ServantInitLock
    \/ ServantMessage
    \/ ServantRefreshLock
    \/ ServantRefreshPipe
    \/ CmdLock
    \/ CmdCreate
    \/ CtlLock
    \/ CtlHandle
    \/ JobLeaves
    \/ JobSearchLock
    \/ JobSearch
    \/ JobRemoveLock
    \/ JobRemove

SpecLock == Init /\ [][NextLock]_vars

\* C35: a servant that is about to read the next message, or that has left,
\* does not hold the mutex: every path through its CMD and CTL handling has
\* released what it acquired.
C35_ServantReleasesLock ==
    \A c \in LockConns :
        lock_pc[Servant(c)] \in {"loop", "exited"} => shell_info_lock # Servant(c)

\* task a is at a call of pthread_mutex_lock
AtLock(a) == lock_pc[a] \in {"cmd_refresh", "cmd_lock", "ctl_lock", "search_lock", "remove_lock"}

\* C37: the mutex of a connection is private to it: the servant of a new
\* connection never initialises a mutex that is held at that moment, and a
\* task at a lock call is never kept waiting by a task of another connection.
C37_LockIsPerConnection ==
    [][/\ \A c \in LockConns :
             (lock_pc[Servant(c)] = "unborn" /\ lock_pc'[Servant(c)] # "unborn")
                 => shell_info_lock = NoOwner
       /\ \A a \in LockTasks :
             (AtLock(a) /\ shell_info_lock # NoOwner) => shell_info_lock[1] = a[1]]_vars

\* C36: the index a servant was handed (its copy of th_args.idx) is the index
\* of the servant-table entry main registered it in, so the run flag a
\* servant reads in its loop is that of its own entry.
C36_ServantIndexIsOwnEntry ==
    \A s \in Servants :
        ServantPc(s) = "loop" => servant_th_table[srv[s].idx].tid = s

(***************************************************************************)
(* strtok.  The function keeps the place where the next call continues in  *)
(* one static pointer of the process; tokenizeString and parseMessage call *)
(* it with no lock held, from every job thread and every servant.  A call  *)
(* is taken as one step.                                                   *)
(***************************************************************************)
StrtokLines == { <<"a", " ", "b">>, <<"c", " ", "d", " ", "e">>, <<"f">> }

\* the character a pointer refers to; the buffer ends with a null character
CharAt(bufs, ptr) ==
    IF ptr[2] > Len(bufs[ptr[1]]) THEN NulChar ELSE bufs[ptr[1]][ptr[2]]

RECURSIVE SkipDelims(_, _)
\* the first character from ptr on that is not the delimiter
SkipDelims(bufs, ptr) ==
    IF CharAt(bufs, ptr) = " " THEN SkipDelims(bufs, <<ptr[1], ptr[2] + 1>>) ELSE ptr

RECURSIVE TokenEnd(_, _)
\* the first delimiter or null character from ptr on
TokenEnd(bufs, ptr) ==
    IF CharAt(bufs, ptr) \in {" ", NulChar} THEN ptr ELSE TokenEnd(bufs, <<ptr[1], ptr[2] + 1>>)

\* strtok(s, " "), s = NullPtr for the calls that continue: the state after
\* the call and the pointer returned
strtok(st, s) ==
    LET from == SkipDelims(st.buf, IF s = NullPtr THEN st.olds ELSE s)
        end == TokenEnd(st.buf, from)
    IN  IF CharAt(st.buf, from) = NulChar
        THEN [st |-> [st EXCEPT !.olds = from], ret |-> NullPtr]
        ELSE IF CharAt(st.buf, end) = NulChar
        THEN [st |-> [st EXCEPT !.olds = end], ret |-> from]
        ELSE [st |-> [st EXCEPT !.olds = <<end[1], end[2] + 1>>,
                                !.buf[end[1]][end[2]] = NulChar],
              ret |-> from]

RECURSIVE StringAt(_, _)
\* the string a pointer refers to
StringAt(bufs, ptr) ==
    IF CharAt(bufs, ptr) = NulChar THEN ""
    ELSE CharAt(bufs, ptr) \o StringAt(bufs, <<ptr[1], ptr[2] + 1>>)

StrtokRest == UNCHANGED <<conn, crashed, chan, child, shell_info_lock, lock_pc,
                          servant_th_table, servant_th_table_idx, th_args, main_pc, conn_n,
                          srv, socks, stop_i, stop_tid>>

\* a thread gets a command line into its cmd_str
tokBegin(k) ==
    /\ strtok_st.pc[k] = "idle"
    /\ \E l \in StrtokLines :
          strtok_st' = [strtok_st EXCEPT !.pc[k] = "first", !.buf[k] = l, !.line[k] = l]
    /\ StrtokRest

\* tokenizeString: cmd_tok[0] = strtok(cmd_str, " ")
tokFirst(k) ==
    /\ strtok_st.pc[k] = "first"
    /\ LET r == strtok(strtok_st, <<k, 1>>)
       IN  strtok_st' = [r.st EXCEPT !.pc[k] = "next", !.tok[k] = <<r.ret>>]
    /\ StrtokRest

\* tokenizeString's loop: cmd_tok[count] = strtok(NULL, " ") until it is null
tokNext(k) ==
    /\ strtok_st.pc[k] = "next"
    /\ LET r == strtok(strtok_st, NullPtr)
       IN  strtok_st' = IF r.ret = NullPtr
                        THEN [r.st EXCEPT !.pc[k] = "done"]
                        ELSE [r.st EXCEPT !.tok[k] = Append(@, r.ret)]
    /\ StrtokRest

TokBegin == \E k \in Tokenizers : tokBegin(k)
TokFirst == \E k \in Tokenizers : tokFirst(k)
TokNext == \E k \in Tokenizers : tokNext(k)

NextStrtok ==
    \/ TokBegin
    \/ TokFirst
    \/ TokNext

SpecStrtok == Init /\ [][NextStrtok]_vars

\* the tokens of thread k as strings
TokenStrings(k) ==
    [n \in 1..Len(strtok_st.tok[k]) |-> StringAt(strtok_st.buf, strtok_st.tok[k][n])]

\* C38: the token list a thread has produced is the tokenization of its own
\* command line, whatever another thread tokenized at the same time.
C38_TokensOfOwnLine ==
    \A k \in Tokenizers :
        strtok_st.pc[k] = "done" => TokenStrings(k) = tokenizeString(strtok_st.line[k])

\* C39: every kill that handleCTLMessages has made named a pid greater than
\* 0: never the daemon's own process group (0) and never every process or a
\* whole group (a negative pid).
C39_KillTargetIsPositive == last_kill.sig # "none" => last_kill.pid > 0

(***************************************************************************)
(* Specification SpecThFill: the job thread table at its capacity.  The    *)
(* client has sent "a" ThFillStart times, each after the job thread of the *)
(* one before had forked its child and blocked in waitpid(); no child      *)
(* terminates, so these threads take no step and their entries 0 ..        *)
(* ThFillStart-1 stay in job_th_table with run set.  The client then sends *)
(* "a" until it has sent MaxThFillCmds lines in all.                       *)
(***************************************************************************)
MaxThFillCmds == 21

FgLine == <<"a">>

ThFillStart == MAX_CONCURRENT_JOBS - 1

\* the thread id in entry k of the blocked threads (not one of Tids)
ThFillTid(k) == MaxJobThreads + k + 1

\* entry s after the s+1-th "a" was admitted, parsed and forked
WaitingJob(s) ==
    [parseJob(FgLine, [NewJob EXCEPT !.jobno = (s + 1) % 256, !.status = JOB_STATUS_RUNNING,
                                     !.seq = s + 1])
        EXCEPT !.gpid = s + 1]

InitThFill ==
    /\ jobs_table = [s \in SlotIds |-> IF s \in 0..(ThFillStart - 1) THEN WaitingJob(s) ELSE UninitJob]
    /\ jobs_table_idx = ThFillStart
    /\ job_th_table = [k \in ThSlotIds |->
                          IF k < ThFillStart
                          THEN [tid |-> ThFillTid(k), run |-> TRUE, jobno |-> k + 1]
                          ELSE NoThEntry]
    /\ job_th_table_idx = ThFillStart
    /\ job_th_args = FgLine
    /\ thr = [t \in Tids |-> IdleThread]
    /\ procs = [k \in 1..ThFillStart |->
                   [state |-> "running", pgid |-> k, by |-> k, side |-> "left",
                    slot_err |-> FALSE, own_err |-> FALSE]]
    /\ run_serv = TRUE
    /\ cmd_n = ThFillStart
    /\ ctl_n = 0
    /\ last_kill = NoKill
    /\ crashed = FALSE
    /\ serv_sent = <<CMD_PROMPT>>
    /\ buf_msg = <<>>
    /\ DaemonInit

\* handleCMDMessages at the count MAX_CONCURRENT_JOBS: nothing compares
\* job_th_table_idx with the capacity, so the entry at the count is the
\* memory behind the array (in shell_info_t, job_th_table_idx itself and
\* what follows it).  The writes of run, tid and jobno land there and the
\* count is incremented, or they take the process down.
handleCMDMessagesFull(arguments) ==
    /\ ~crashed /\ run_serv /\ FreeTids # {}
    /\ job_th_table_idx = MAX_CONCURRENT_JOBS
    /\ \E lands \in BOOLEAN :
          IF lands
          THEN LET t == CHOOSE x \in FreeTids : \A y \in FreeTids : x <= y
               IN  /\ job_th_table_idx' = job_th_table_idx + 1
                   /\ thr' = [thr EXCEPT ![t] = [IdleThread EXCEPT !.pc = "copy", !.seq = cmd_n + 1]]
                   /\ job_th_args' = arguments
                   /\ UNCHANGED crashed
          ELSE /\ crashed' = TRUE
               /\ UNCHANGED <<job_th_table_idx, thr, job_th_args>>
    /\ cmd_n' = cmd_n + 1
    /\ UNCHANGED <<daemon, serv_sent, jobs_table, jobs_table_idx, job_th_table, procs, run_serv,
                   ctl_n, last_kill>>

ThFillCMD == cmd_n < MaxThFillCmds /\ handleCMDMessages(FgLine) /\ UNCHANGED buf_msg
ThFullCMD == cmd_n < MaxThFillCmds /\ handleCMDMessagesFull(FgLine) /\ UNCHANGED buf_msg

NextThFill ==
    \/ ThFillCMD
    \/ ThFullCMD
    \/ Copy
    \/ Start
    \/ Parse
    \/ Parsed
    \/ Run
    \/ Fault

SpecThFill == InitThFill /\ [][NextThFill]_vars

\* C40: the job thread table of a connection never holds more than its
\* capacity of MAX_CONCURRENT_JOBS entries, however many commands have job
\* threads running at the same time.
C40_JobThTableWithinCapacity == job_th_table_idx <= MAX_CONCURRENT_JOBS

=============================================================================
